---- MODULE Spec2Model ----
(***************************************************************************)
(* OpDataSelection (ilastik/applets/dataSelection/opDataSelection.py):     *)
(* the data-source-selection operator.  setupOutputs builds a chain of     *)
(* child operators (reader, metadata injector, axis reordering stage) and  *)
(* connects the operator's outputs to it; internalCleanup tears the chain  *)
(* down.  Each statement group of the two methods is one step of the       *)
(* model, sequenced by pc, so that the states inside a call are visible.   *)
(* Further down: the lanes of OpMultiLaneDataSelectionGroup, setupOutputs  *)
(* of OpDataSelectionGroup, run_export of OpExportDvidVolume and           *)
(* exportRelabeling of SplitBodySupervoxelExportGui,                       *)
(* each with a specification of its own in which the others stay as        *)
(* constructed.                                                            *)
(***************************************************************************)
EXTENDS Integers, Sequences, FiniteSets, TLC

\* Number of triggering slot operations (setValue / disconnect) in a run.
MaxCalls == 3

\* Largest number of lanes of the multi-lane group.
MaxLanes == 3

\* Number of addLane / removeLane calls in a run.
MaxLaneCalls == 5

\* Number of run_export calls in a run.
MaxExports == 2

\* Number of clicks on the export button in a run.
MaxClicks == 3

\* Largest number of slot operations on the OpDataSelectionGroup.
MaxGroupCalls == 5

(***************************************************************************)
(* Axis orders are sequences of axis keys.                                 *)
(***************************************************************************)
Range(s) == {s[i] : i \in DOMAIN s}

IndexOf(s, a) == CHOOSE i \in DOMAIN s : s[i] = a

Reverse(s) == [i \in 1..Len(s) |-> s[Len(s) + 1 - i]]

\* ndstructs Point5D.LABELS
Point5D_LABELS == {"x", "y", "z", "t", "c"}

\* MetaDict.getTaggedShape(): axis key -> extent
getTaggedShape(meta) == [k \in Range(meta.keys) |-> meta.shape[IndexOf(meta.keys, k)]]

\* MetaDict.getShape5D().to_squeezed_dict(): the axes whose extent is not 1
to_squeezed_dict(meta) == {k \in Range(meta.keys) : getTaggedShape(meta)[k] # 1}

NoMeta == [keys |-> <<>>, shape |-> <<>>]

(***************************************************************************)
(* DatasetInfo values.  keys/shape describe what the provider selected by  *)
(* the location tag exposes (for the placeholder reader: laneShape and     *)
(* axistags of the info itself); axistags = <<>> stands for None.          *)
(***************************************************************************)
DatasetInfo(keys, shape, axistags) ==
    [location |-> "FileSystem", realDataSource |-> TRUE, readable |-> TRUE,
     preloaded_array |-> FALSE, keys |-> keys, shape |-> shape,
     axistags |-> axistags, allowLabels |-> TRUE, nickname |-> "",
     filePath |-> "data.h5", meta_nickname |-> ""]

NoDataset == [DatasetInfo(<<>>, <<>>, <<>>) EXCEPT !.location = "None"]

Datasets ==
    { \* scenario A, scenario B
      DatasetInfo(<<"t","z","y","x","c">>, <<1,1,50,50,1>>, <<>>),
      DatasetInfo(<<"y","x">>, <<50,50>>, <<>>),
      DatasetInfo(<<"y","x">>, <<30,20>>, <<>>),
      \* providers without x and/or y (scenario C)
      DatasetInfo(<<"t","c">>, <<5,3>>, <<>>),
      DatasetInfo(<<"z","y">>, <<10,30>>, <<>>),
      \* 3d / time series / multichannel / singleton z
      DatasetInfo(<<"z","y","x">>, <<10,30,20>>, <<>>),
      DatasetInfo(<<"z","y","x">>, <<1,30,20>>, <<>>),
      DatasetInfo(<<"t","y","x">>, <<5,30,20>>, <<>>),
      [DatasetInfo(<<"y","x","c">>, <<30,20,3>>, <<>>) EXCEPT !.allowLabels = FALSE,
                                                              !.nickname = "rgb"],
      DatasetInfo(<<"t","z","y","x","c">>, <<2,10,30,20,3>>, <<>>),
      \* axis reinterpretation: same length, short by the channel axis,
      \* squeezed length, no match, reinterpretation that loses x
      DatasetInfo(<<"y","x">>, <<30,20>>, <<"x","y">>),
      DatasetInfo(<<"y","x","c">>, <<30,20,3>>, <<"z","y">>),
      DatasetInfo(<<"y","x","c">>, <<30,20,3>>, <<"x","y">>),
      DatasetInfo(<<"z","y","x">>, <<1,30,20>>, <<"y","x">>),
      DatasetInfo(<<"y","x">>, <<30,20>>, <<"t","z","y","x","c">>),
      DatasetInfo(<<"y","x">>, <<30,20>>, <<"z","y">>),
      \* other locations and unreadable sources
      [DatasetInfo(<<"y","x">>, <<30,20>>, <<>>) EXCEPT !.readable = FALSE],
      [DatasetInfo(<<"z","y","x">>, <<10,30,20>>, <<>>) EXCEPT !.location = "ProjectInternal",
                                                              !.meta_nickname = "raw"],
      [DatasetInfo(<<"y","x">>, <<30,20>>, <<>>) EXCEPT !.location = "PreloadedArray",
                                                        !.preloaded_array = TRUE],
      [DatasetInfo(<<"y","x">>, <<30,20>>, <<>>) EXCEPT !.location = "PreloadedArray"],
      [DatasetInfo(<<"y","x","c">>, <<30,20,1>>, <<"y","x","c">>) EXCEPT !.realDataSource = FALSE] }

\* The lists of allowed axis orders a workflow passes as forceAxisOrder.
ForceAxisOrders ==
    { << <<"t","c","z","y","x">> >>,
      << <<"y","x","c">>, <<"z","y","x","c">> >>,
      << <<"t","z","y","x","c">>, <<"z","y","x","c">>, <<"t","y","x","c">>, <<"y","x">> >>,
      << <<"z","y","x","c">>, <<"t","y","x","c">>, <<"y","x","z","c">> >>,
      << >> }

(***************************************************************************)
(* Exceptions                                                              *)
(***************************************************************************)
NoError == [type |-> "None", appletName |-> "", message |-> ""]

DatasetConstraintError(appletName, message) ==
    [type |-> "DatasetConstraintError", appletName |-> appletName, message |-> message]

Exception(type, message) == [type |-> type, appletName |-> "", message |-> message]

(***************************************************************************)
(* Child operators of lazyflow, as far as setupOutputs relies on them.     *)
(***************************************************************************)
\* the reader selected by datasetInfo.location (lines 427-461)
ReaderKind(datasetInfo) ==
    IF datasetInfo.location = "ProjectInternal" THEN "OpStreamingH5N5Reader"
    ELSE IF datasetInfo.location = "PreloadedArray" THEN "OpArrayPiper"
    ELSE IF datasetInfo.realDataSource THEN "OpInputDataReader"
    ELSE "OpZeroDefault"

\* the error configuring the reader raises, NoError if it succeeds
ReaderError(datasetInfo, projectFileReady) ==
    IF datasetInfo.location = "ProjectInternal" /\ ~projectFileReady
      THEN Exception("SlotNotReadyError", "ProjectFile")
    ELSE IF datasetInfo.location \in {"ProjectInternal", "FileSystem"}
            /\ datasetInfo.realDataSource /\ ~datasetInfo.readable
      THEN Exception("DatasetReadError", datasetInfo.filePath)
    ELSE NoError

\* OpMetadataInjector: the input's metadata overlaid with the injected keys
OpMetadataInjector_Output(inputMeta, metadata_axistags) ==
    [keys  |-> IF metadata_axistags = <<>> THEN inputMeta.keys ELSE metadata_axistags,
     shape |-> inputMeta.shape]

\* OpReorderAxes: transposes the input to AxisOrder, inserting singleton axes
OpReorderAxes_Output(inputMeta, AxisOrder) ==
    [keys  |-> AxisOrder,
     shape |-> [i \in 1..Len(AxisOrder) |->
                  IF AxisOrder[i] \in Range(inputMeta.keys)
                    THEN getTaggedShape(inputMeta)[AxisOrder[i]] ELSE 1]]

(***************************************************************************)
(* setupOutputs, lines 485-505: the axis tags to inject.  The result is    *)
(* the set of possible outcomes: {} when the code raises, several when the *)
(* order of set.pop() decides (the dummy axes of the squeezed case).       *)
(***************************************************************************)
\* the injective sequences of length n over the set S
RECURSIVE InjectiveSeqs(_, _)
InjectiveSeqs(S, n) ==
    IF n = 0 THEN {<<>>}
    ELSE UNION {{<<a>> \o r : r \in InjectiveSeqs(S \ {a}, n - 1)} : a \in S}

\* lines 496-501: walk the provider axes, taking info keys for the squeezed
\* axes and popped dummy axes for the others
RECURSIVE out_axes(_, _, _, _)
out_axes(provider_keys, squeezed, info_keys, dummies) ==
    IF provider_keys = <<>> THEN <<>>
    ELSE IF Head(provider_keys) \in squeezed
      THEN <<Head(info_keys)>> \o out_axes(Tail(provider_keys), squeezed, Tail(info_keys), dummies)
      ELSE <<Head(dummies)>> \o out_axes(Tail(provider_keys), squeezed, info_keys, Tail(dummies))

\* lines 485-505 with line 493 not appending the channel axis
metadata_axistags_short(datasetInfo, providerMeta) ==
    LET info_keys == datasetInfo.axistags
        provider_shape == providerMeta.shape
        provider_keys == providerMeta.keys
        provider_squeezed_shape == to_squeezed_dict(providerMeta)
    IN  IF info_keys = <<>> THEN {<<>>}
        ELSE IF Len(info_keys) = Len(provider_shape) THEN {info_keys}
        ELSE IF Len(info_keys) = Len(provider_shape) - 1
                /\ Range(provider_keys) \ Range(info_keys) = {"c"}
          THEN {info_keys}
        ELSE IF Len(info_keys) = Cardinality(provider_squeezed_shape)
          THEN LET dummy_axes == Point5D_LABELS \ Range(info_keys)
                   n == Len(provider_keys) - Cardinality(provider_squeezed_shape)
               IN  {out_axes(provider_keys, provider_squeezed_shape, info_keys, d) :
                      d \in InjectiveSeqs(dummy_axes, n)}
        ELSE {}

\* lines 485-505
metadata_axistags(datasetInfo, providerMeta) ==
    LET info_keys == datasetInfo.axistags
        provider_shape == providerMeta.shape
        provider_keys == providerMeta.keys
        provider_squeezed_shape == to_squeezed_dict(providerMeta)
    IN  IF info_keys = <<>> THEN {<<>>}
        ELSE IF Len(info_keys) = Len(provider_shape) THEN {info_keys}
        ELSE IF Len(info_keys) = Len(provider_shape) - 1
                /\ Range(provider_keys) \ Range(info_keys) = {"c"}
          THEN {info_keys \o <<"c">>}
        ELSE IF Len(info_keys) = Cardinality(provider_squeezed_shape)
          THEN LET dummy_axes == Point5D_LABELS \ Range(info_keys)
                   n == Len(provider_keys) - Cardinality(provider_squeezed_shape)
               IN  {out_axes(provider_keys, provider_squeezed_shape, info_keys, d) :
                      d \in InjectiveSeqs(dummy_axes, n)}
        ELSE {}

(***************************************************************************)
(* setupOutputs, lines 527-559: validation and choice of the axis order.   *)
(***************************************************************************)
\* line 528
has_x_and_y(meta) == "x" \in Range(meta.keys) /\ "y" \in Range(meta.keys)

\* line 539
minimal_axes(meta) == {k \in Range(meta.keys) : getTaggedShape(meta)[k] > 1}

\* line 544 with the subset test the wrong way round
candidate_orders_reversed(forceOrder, minimal) ==
    SelectSeq(forceOrder, LAMBDA order : Range(order) \subseteq minimal)

\* line 544 demanding exactly the minimal axes
candidate_orders_equal(forceOrder, minimal) ==
    SelectSeq(forceOrder, LAMBDA order : minimal = Range(order))

\* line 544 without the filter
candidate_orders_unfiltered(forceOrder, minimal) == forceOrder

\* line 544
candidate_orders(forceOrder, minimal) ==
    SelectSeq(forceOrder, LAMBDA order : minimal \subseteq Range(order))

\* a sort by length that puts later entries of equal length first
RECURSIVE sorted_by_len_unstable(_)
sorted_by_len_unstable(orders) ==
    IF orders = <<>> THEN <<>>
    ELSE LET last == orders[Len(orders)]
             front == sorted_by_len_unstable(SubSeq(orders, 1, Len(orders) - 1))
             keep == SelectSeq(front, LAMBDA o : Len(o) < Len(last))
             after == SelectSeq(front, LAMBDA o : Len(o) >= Len(last))
         IN  keep \o <<last>> \o after

\* sorted(candidate_orders, key=len): Python's sort is stable
RECURSIVE sorted_by_len(_)
sorted_by_len(orders) ==
    IF orders = <<>> THEN <<>>
    ELSE LET last == orders[Len(orders)]
             front == sorted_by_len(SubSeq(orders, 1, Len(orders) - 1))
             keep == SelectSeq(front, LAMBDA o : Len(o) <= Len(last))
             after == SelectSeq(front, LAMBDA o : Len(o) > Len(last))
         IN  keep \o <<last>> \o after

\* line 551
shortest_order(candidates) == sorted_by_len(candidates)[1]

\* lines 558-559 without the test of line 558
with_channel_axis_always(order) == order \o <<"c">>

\* lines 558-559
with_channel_axis(order) == IF "c" \notin Range(order) THEN order \o <<"c">> ELSE order

\* lines 568-574
imageNameOf(datasetInfo) ==
    LET nickname == IF datasetInfo.meta_nickname # "" THEN datasetInfo.meta_nickname
                    ELSE datasetInfo.nickname
    IN  IF nickname = "" THEN datasetInfo.filePath ELSE nickname

(***************************************************************************)
(* State of one OpDataSelection                                            *)
(***************************************************************************)
VARIABLES
    forceAxisOrder,       \* constructor argument
    Dataset,              \* input slot: a DatasetInfo, NoDataset when not ready
    WorkingDirectory,     \* input slot: ready or not
    ProjectFile,          \* optional input slot: ready or not
    _opReaders,           \* ids of the child operators, in order of appending
    children,             \* every child operator ever created: id -> record
    Image,                \* output slot: id of the child it is connected to, 0 if none
    _NonTransposedImage,  \* output slot: id of the child it is connected to, 0 if none
    AllowLabels,          \* output slot holding a value
    ImageName,            \* output slot holding a value
    pc,                   \* position inside the running call
    ret,                  \* where internalCleanup returns to
    iter,                 \* the children the loop of internalCleanup has still to visit
    providerSlot,         \* local of setupOutputs: id of the child providing the data
    metadata,             \* local of setupOutputs: metadata['axistags'], <<>> if not injected
    output_order,         \* local of setupOutputs
    exc,                  \* the exception in flight
    raised,               \* what the last finished call raised to its caller
    prior,                \* the configuration when the running (or last) call started
    calls                 \* number of triggering slot operations so far

slots == <<Dataset, WorkingDirectory, ProjectFile>>
outputs == <<Image, _NonTransposedImage, AllowLabels, ImageName>>
locals == <<ret, iter, providerSlot, metadata, output_order, exc>>
vars == <<forceAxisOrder, Dataset, WorkingDirectory, ProjectFile, _opReaders, children,
          Image, _NonTransposedImage, AllowLabels, ImageName, pc, ret, iter,
          providerSlot, metadata, output_order, exc, raised, prior, calls>>

NoValue == [ready |-> FALSE, value |-> ""]
Value(v) == [ready |-> TRUE, value |-> v]

\* Operator.configured(): every non-optional input is ready (RoleName has a default)
configured(dataset, workingDirectory) == dataset # NoDataset /\ workingDirectory

Configuration ==
    [opReaders |-> _opReaders, Image |-> Image, NonTransposedImage |-> _NonTransposedImage,
     AllowLabels |-> AllowLabels, ImageName |-> ImageName]

\* what a call finds on entry: the configuration, how many children exist,
\* and the dimensionality of the dataset then selected (0 if none)
Entry == [configuration |-> Configuration, nChildren |-> Len(children),
          ndim |-> Len(Dataset.shape),
          configured |-> configured(Dataset, WorkingDirectory)]

\* lines 402-404 and the slot declarations
Init ==
    /\ forceAxisOrder \in ForceAxisOrders
    /\ Dataset = NoDataset
    /\ WorkingDirectory = FALSE
    /\ ProjectFile = FALSE
    /\ _opReaders = <<>>
    /\ children = <<>>
    /\ Image = 0
    /\ _NonTransposedImage = 0
    /\ AllowLabels = NoValue
    /\ ImageName = NoValue
    /\ pc = "idle"
    /\ ret = "idle"
    /\ iter = <<>>
    /\ providerSlot = 0
    /\ metadata = <<>>
    /\ output_order = <<>>
    /\ exc = NoError
    /\ raised = NoError
    /\ prior = Entry
    /\ calls = 0

(***************************************************************************)
(* Slot operations of the client.  Setting an input runs setupOutputs once *)
(* every required input is ready; disconnecting one fires the unready      *)
(* callbacks registered in __init__ (lines 408-411).                       *)
(***************************************************************************)
Trigger(dataset, workingDirectory, projectFile, next) ==
    /\ pc = "idle"
    /\ calls < MaxCalls
    /\ calls' = calls + 1
    /\ Dataset' = dataset
    /\ WorkingDirectory' = workingDirectory
    /\ ProjectFile' = projectFile
    /\ prior' = Entry
    /\ raised' = NoError
    /\ exc' = NoError
    /\ pc' = next
    /\ ret' = IF next = "internalCleanup" THEN "notified" ELSE ret
    /\ UNCHANGED <<forceAxisOrder, _opReaders, children, outputs, iter, providerSlot,
                   metadata, output_order>>

AfterSet(dataset, workingDirectory) ==
    IF configured(dataset, workingDirectory) THEN "setupOutputs" ELSE "idle"

Dataset_setValue == \E d \in Datasets :
    Trigger(d, WorkingDirectory, ProjectFile, AfterSet(d, WorkingDirectory))

WorkingDirectory_setValue ==
    Trigger(Dataset, TRUE, ProjectFile, AfterSet(Dataset, TRUE))

ProjectFile_setValue ==
    Trigger(Dataset, WorkingDirectory, TRUE, AfterSet(Dataset, WorkingDirectory))

Dataset_disconnect ==
    /\ Dataset # NoDataset
    /\ Trigger(NoDataset, WorkingDirectory, ProjectFile, "internalCleanup")

WorkingDirectory_disconnect ==
    /\ WorkingDirectory
    /\ Trigger(Dataset, FALSE, ProjectFile, "internalCleanup")

ProjectFile_disconnect ==
    /\ ProjectFile
    /\ Trigger(Dataset, WorkingDirectory, FALSE, "internalCleanup")

\* the unready callback has returned: an operator with a required input
\* unready has its outputs torn down to not-ready, any other is set up again
notified ==
    /\ pc = "notified"
    /\ pc' = AfterSet(Dataset, WorkingDirectory)
    /\ ret' = "idle"
    /\ IF configured(Dataset, WorkingDirectory)
         THEN UNCHANGED outputs
         ELSE /\ Image' = 0
              /\ _NonTransposedImage' = 0
              /\ AllowLabels' = NoValue
              /\ ImageName' = NoValue
    /\ UNCHANGED <<forceAxisOrder, slots, _opReaders, children, iter,
                   providerSlot, metadata, output_order, exc, raised, prior, calls>>

(***************************************************************************)
(* internalCleanup, lines 413-419                                          *)
(***************************************************************************)
\* line 417 without reversed()
cleanup_order_forward(readers) == readers

\* line 417
cleanup_order(readers) == Reverse(readers)

\* Operator.cleanUp() of a child: its outputs are disconnected
cleanUp(child) == [child EXCEPT !.cleanUps = @ + 1, !.meta = NoMeta]

\* line 414
internalCleanup ==
    /\ pc = "internalCleanup"
    /\ pc' = IF Len(_opReaders) > 0 THEN "ic_Image" ELSE ret
    /\ UNCHANGED <<forceAxisOrder, slots, _opReaders, children, outputs, locals,
                   raised, prior, calls>>

\* line 415
ic_Image ==
    /\ pc = "ic_Image"
    /\ Image' = 0
    /\ pc' = "ic_NonTransposedImage"
    /\ UNCHANGED <<forceAxisOrder, slots, _opReaders, children, _NonTransposedImage,
                   AllowLabels, ImageName, locals, raised, prior, calls>>

\* line 416
ic_NonTransposedImage ==
    /\ pc = "ic_NonTransposedImage"
    /\ _NonTransposedImage' = 0
    /\ pc' = "ic_reversed"
    /\ UNCHANGED <<forceAxisOrder, slots, _opReaders, children, Image, AllowLabels,
                   ImageName, locals, raised, prior, calls>>

\* line 417: the loop is entered over the list as it is now
ic_reversed ==
    /\ pc = "ic_reversed"
    /\ iter' = cleanup_order(_opReaders)
    /\ pc' = "ic_cleanUp"
    /\ UNCHANGED <<forceAxisOrder, slots, _opReaders, children, outputs, ret,
                   providerSlot, metadata, output_order, exc, raised, prior, calls>>

\* line 418, one iteration
ic_cleanUp ==
    /\ pc = "ic_cleanUp"
    /\ iter # <<>>
    /\ children' = [children EXCEPT ![Head(iter)] = cleanUp(@)]
    /\ iter' = Tail(iter)
    /\ UNCHANGED <<forceAxisOrder, slots, _opReaders, outputs, pc, ret, providerSlot,
                   metadata, output_order, exc, raised, prior, calls>>

\* line 419
ic_clear ==
    /\ pc = "ic_cleanUp"
    /\ iter = <<>>
    /\ _opReaders' = <<>>
    /\ pc' = ret
    /\ UNCHANGED <<forceAxisOrder, slots, children, outputs, locals, raised, prior, calls>>

(***************************************************************************)
(* setupOutputs, lines 421-578                                             *)
(***************************************************************************)
\* Operator(parent=self): a new child operator
NewChild(kind, meta) == [kind |-> kind, meta |-> meta, cleanUps |-> 0]

\* the frame of setupOutputs is left: its locals are gone
Return ==
    /\ ret' = "idle"
    /\ iter' = <<>>
    /\ providerSlot' = 0
    /\ metadata' = <<>>
    /\ output_order' = <<>>
    /\ exc' = NoError

\* raise inside the try block
Raise(error) ==
    /\ exc' = error
    /\ pc' = "so_except"

\* line 422
setupOutputs ==
    /\ pc = "setupOutputs"
    /\ pc' = "internalCleanup"
    /\ ret' = "so_reader"
    /\ UNCHANGED <<forceAxisOrder, slots, _opReaders, children, outputs, iter,
                   providerSlot, metadata, output_order, exc, raised, prior, calls>>

\* lines 423-462: the reader is created, configured and only then appended
so_reader ==
    /\ pc = "so_reader"
    /\ LET datasetInfo == Dataset
           opReader == Len(children) + 1
           error == ReaderError(datasetInfo, ProjectFile)
       IN  IF datasetInfo.location = "PreloadedArray" /\ ~datasetInfo.preloaded_array
             THEN /\ Raise(Exception("AssertionError", "preloaded_array is not None"))
                  /\ UNCHANGED <<children, _opReaders, providerSlot>>
           ELSE IF error # NoError
             THEN /\ children' = Append(children, NewChild(ReaderKind(datasetInfo), NoMeta))
                  /\ Raise(error)
                  /\ UNCHANGED <<_opReaders, providerSlot>>
           ELSE /\ children' = Append(children,
                        NewChild(ReaderKind(datasetInfo),
                                 [keys |-> datasetInfo.keys, shape |-> datasetInfo.shape]))
                /\ providerSlot' = opReader
                /\ _opReaders' = Append(_opReaders, opReader)
                /\ exc' = exc
                /\ pc' = "so_metadata"
    /\ UNCHANGED <<forceAxisOrder, slots, outputs, ret, iter, metadata, output_order,
                   raised, prior, calls>>

\* lines 464-510
so_metadata ==
    /\ pc = "so_metadata"
    /\ LET choices == metadata_axistags(Dataset, children[providerSlot].meta)
       IN  IF choices = {}
             THEN /\ Raise(Exception("Exception", "Cannot reinterpret input"))
                  /\ metadata' = metadata
             ELSE /\ \E axistags \in choices : metadata' = axistags
                  /\ exc' = exc
                  /\ pc' = "so_injector"
    /\ UNCHANGED <<forceAxisOrder, slots, _opReaders, children, outputs, ret, iter,
                   providerSlot, output_order, raised, prior, calls>>

\* lines 519-525
so_injector ==
    /\ pc = "so_injector"
    /\ LET opMetadataInjector == Len(children) + 1
       IN  /\ children' = Append(children,
                   NewChild("OpMetadataInjector",
                            OpMetadataInjector_Output(children[providerSlot].meta, metadata)))
           /\ providerSlot' = opMetadataInjector
           /\ _opReaders' = Append(_opReaders, opMetadataInjector)
           /\ _NonTransposedImage' = opMetadataInjector
    /\ pc' = "so_axes"
    /\ UNCHANGED <<forceAxisOrder, slots, Image, AllowLabels, ImageName, ret, iter,
                   metadata, output_order, exc, raised, prior, calls>>

\* lines 527-530
so_axes ==
    /\ pc = "so_axes"
    /\ IF ~has_x_and_y(children[providerSlot].meta)
         THEN Raise(DatasetConstraintError("DataSelection", "x and y"))
         ELSE /\ exc' = exc
              /\ pc' = "so_order"
    /\ UNCHANGED <<forceAxisOrder, slots, _opReaders, children, outputs, ret, iter,
                   providerSlot, metadata, output_order, raised, prior, calls>>

\* lines 532-557
so_order ==
    /\ pc = "so_order"
    /\ LET meta == children[providerSlot].meta
           candidates == candidate_orders(forceAxisOrder, minimal_axes(meta))
       IN  IF forceAxisOrder # <<>> /\ Len(candidates) = 0
             THEN /\ Raise(DatasetConstraintError("DataSelection", "not compatible"))
                  /\ output_order' = output_order
           ELSE /\ output_order' = IF forceAxisOrder # <<>> THEN shortest_order(candidates)
                                   ELSE meta.keys
                /\ exc' = exc
                /\ pc' = "so_channel"
    /\ UNCHANGED <<forceAxisOrder, slots, _opReaders, children, outputs, ret, iter,
                   providerSlot, metadata, raised, prior, calls>>

\* lines 558-559
so_channel ==
    /\ pc = "so_channel"
    /\ output_order' = with_channel_axis(output_order)
    /\ pc' = "so_reorder"
    /\ UNCHANGED <<forceAxisOrder, slots, _opReaders, children, outputs, ret, iter,
                   providerSlot, metadata, exc, raised, prior, calls>>

\* lines 561-564
so_reorder ==
    /\ pc = "so_reorder"
    /\ LET op5 == Len(children) + 1
       IN  /\ children' = Append(children,
                   NewChild("OpReorderAxes",
                            OpReorderAxes_Output(children[providerSlot].meta, output_order)))
           /\ _opReaders' = Append(_opReaders, op5)
           /\ Image' = op5
    /\ pc' = "so_outputs"
    /\ UNCHANGED <<forceAxisOrder, slots, _NonTransposedImage, AllowLabels, ImageName,
                   locals, raised, prior, calls>>

\* lines 566-574; setupOutputs returns
so_outputs ==
    /\ pc = "so_outputs"
    /\ AllowLabels' = Value(Dataset.allowLabels)
    /\ Dataset' = IF Dataset.meta_nickname # ""
                    THEN [Dataset EXCEPT !.nickname = Dataset.meta_nickname] ELSE Dataset
    /\ ImageName' = Value(imageNameOf(Dataset))
    /\ pc' = "idle"
    /\ Return
    /\ UNCHANGED <<forceAxisOrder, WorkingDirectory, ProjectFile, _opReaders, children,
                   Image, _NonTransposedImage, raised, prior, calls>>

\* lines 576-577
so_except ==
    /\ pc = "so_except"
    /\ pc' = "internalCleanup"
    /\ ret' = "so_raise"
    /\ UNCHANGED <<forceAxisOrder, slots, _opReaders, children, outputs, iter,
                   providerSlot, metadata, output_order, exc, raised, prior, calls>>

\* line 578: the exception reaches the caller of setupOutputs
so_raise ==
    /\ pc = "so_raise"
    /\ raised' = exc
    /\ pc' = "idle"
    /\ Return
    /\ UNCHANGED <<forceAxisOrder, slots, _opReaders, children, outputs, prior, calls>>

(***************************************************************************)
(* State of one OpMultiLaneDataSelectionGroup, lines 690-722               *)
(***************************************************************************)
VARIABLES
    innerOperators,       \* the lane operators, in lane order
    broadcastSlots,       \* value of each level-0 input of the wrapper, "" if not connected
    outputSlots,          \* each leveled output of the wrapper: the lane ids it exposes
    tornDown,             \* ids of the lane operators that were cleaned up
    lanePc,               \* position inside the running addLane
    laneCall,             \* the running (or last) addLane / removeLane call
    laneCalls             \* number of addLane / removeLane calls so far

laneVars == <<innerOperators, broadcastSlots, outputSlots, tornDown, lanePc, laneCall,
              laneCalls>>

(***************************************************************************)
(* State of one OpExportDvidVolume and of the server it exports to         *)
(***************************************************************************)
VARIABLES
    exTranspose,          \* constructor argument transpose_axes
    exInput,              \* input slot Input: an array, NoArray when not ready
    exUrl,                \* input slot NodeDataUrl: a url, <<>> when not ready
    exSetup,              \* how the last setupOutputs ended, "" if it never ran
    exPc,                 \* position inside run_export
    exLocals,             \* locals of run_export
    progress,             \* the values progressSignal was called with in this run
    sent,                 \* the requests the server accepted in this run
    volumes,              \* the server: (uuid, dataname) -> volume
    exRaised,             \* what the running (or last) run_export raised
    exports               \* number of run_export calls so far

exportVars == <<exTranspose, exInput, exUrl, exSetup, exPc, exLocals, progress, sent,
                volumes, exRaised, exports>>

(***************************************************************************)
(* State of one SplitBodySupervoxelExportGui                               *)
(***************************************************************************)
VARIABLES
    guiPc,                \* position inside exportRelabeling
    exportButton,         \* self._drawer.exportButton: enabled or not
    exportPath,           \* local of exportRelabeling
    req,                  \* the last request started, with its callbacks
    clicks,               \* number of clicks on the button so far
    started               \* number of requests started so far

guiVars == <<guiPc, exportButton, exportPath, req, clicks, started>>

(***************************************************************************)
(* State of one OpDataSelectionGroup, lines 589-688                        *)
(***************************************************************************)
VARIABLES
    DatasetRoles,           \* input slot: [ready, value], the value a list of role names
    Group_WorkingDirectory, \* input slot WorkingDirectory: ready or not
    DatasetGroup,           \* level-1 input slot: per subslot a dataset, "" if not ready
    _roles,                 \* self._roles
    _opDatasets,            \* self._opDatasets: id of a wrapper, 0 for None
    wrappers,               \* every OperatorWrapper ever created: id -> record
    groupOutputs,           \* output slot name -> [partner, NOTREADY]
    groupPc,                \* position inside the running setupOutputs
    role_index,             \* loop variable of line 651
    groupRaised,            \* what the running (or last) call raised to the client
    groupCalls              \* number of slot operations of the client so far

groupVars == <<DatasetRoles, Group_WorkingDirectory, DatasetGroup, _roles, _opDatasets,
               wrappers, groupOutputs, groupPc, role_index, groupRaised, groupCalls>>

\* what the steps of one OpDataSelection leave alone
others == <<laneVars, groupVars, exportVars, guiVars>>

allvars == <<vars, others>>

Next ==
    \/ Dataset_setValue /\ UNCHANGED others
    \/ WorkingDirectory_setValue /\ UNCHANGED others
    \/ ProjectFile_setValue /\ UNCHANGED others
    \/ Dataset_disconnect /\ UNCHANGED others
    \/ WorkingDirectory_disconnect /\ UNCHANGED others
    \/ ProjectFile_disconnect /\ UNCHANGED others
    \/ notified /\ UNCHANGED others
    \/ internalCleanup /\ UNCHANGED others
    \/ ic_Image /\ UNCHANGED others
    \/ ic_NonTransposedImage /\ UNCHANGED others
    \/ ic_reversed /\ UNCHANGED others
    \/ ic_cleanUp /\ UNCHANGED others
    \/ ic_clear /\ UNCHANGED others
    \/ setupOutputs /\ UNCHANGED others
    \/ so_reader /\ UNCHANGED others
    \/ so_metadata /\ UNCHANGED others
    \/ so_injector /\ UNCHANGED others
    \/ so_axes /\ UNCHANGED others
    \/ so_order /\ UNCHANGED others
    \/ so_channel /\ UNCHANGED others
    \/ so_reorder /\ UNCHANGED others
    \/ so_outputs /\ UNCHANGED others
    \/ so_except /\ UNCHANGED others
    \/ so_raise /\ UNCHANGED others

(***************************************************************************)
(* Unready notifications arriving inside a running call.  The callbacks of *)
(* lines 408-411 run synchronously in whatever the operator is doing when  *)
(* a slot becomes unready; a listener of the outputs may disconnect        *)
(* ProjectDataGroup (line 409) from inside Image.disconnect(), from inside *)
(* a child's cleanUp() or from inside Image.connect().                     *)
(***************************************************************************)
\* the running call is inside a call into the slots or into a child
ReentryPoint ==
    \/ pc = "ic_NonTransposedImage"                       \* inside line 415
    \/ pc = "ic_reversed"                                 \* inside line 416
    \/ pc = "ic_cleanUp" /\ Len(iter) < Len(_opReaders)   \* inside line 418
    \/ pc = "so_outputs"                                  \* inside line 564

\* lines 413-419 run to their end inside the running call, which then goes on
internalCleanup_reentrant ==
    /\ ReentryPoint
    /\ Len(_opReaders) > 0
    /\ Image' = 0
    /\ _NonTransposedImage' = 0
    /\ children' = [c \in DOMAIN children |->
                       IF c \in Range(_opReaders) THEN cleanUp(children[c])
                       ELSE children[c]]
    /\ _opReaders' = <<>>
    /\ UNCHANGED <<forceAxisOrder, slots, AllowLabels, ImageName, pc, locals, raised,
                   prior, calls>>

NextReentrant ==
    \/ Next
    \/ internalCleanup_reentrant /\ UNCHANGED others

(***************************************************************************)
(* OpMultiLaneDataSelectionGroup, lines 690-722.  The base class           *)
(* (OpMultiLaneWrapper over lazyflow's OperatorWrapper) adds a lane by     *)
(* instantiating the inner operator, connecting its broadcast slots to the *)
(* wrapper's and inserting its outputs into the wrapper's leveled outputs, *)
(* and removes lane i by tearing instance i down and compacting the rest.  *)
(***************************************************************************)
\* the dataset roles of the workflow, one entry of DatasetGroup[lane] each
Roles == {"Raw Data", "Prediction Maps"}

\* the level-0 inputs of the wrapper
WrapperInputs == {"ProjectFile", "ProjectDataGroup", "WorkingDirectory", "DatasetRoles"}

\* lines 695-696 without DatasetRoles, as for the wrapper of line 642
broadcastingSlotNames_group == {"ProjectFile", "ProjectDataGroup", "WorkingDirectory"}

\* lines 695-696
broadcastingSlotNames == {"ProjectFile", "ProjectDataGroup", "WorkingDirectory", "DatasetRoles"}

\* the leveled outputs of the wrapper (lines 596-603 of the inner operator)
WrapperOutputs == {"ImageGroup", "Image", "ImageName"}

\* line 715 without the test
addLane_creates_always(numLanes, laneIndex) == TRUE

\* line 715
addLane_creates(numLanes, laneIndex) == numLanes = laneIndex

\* line 721 without the test
removeLane_removes_always(numLanes, finalLength) == TRUE

\* line 721
removeLane_removes(numLanes, finalLength) == numLanes > finalLength

\* list.insert(index, x) and list.pop(index), index counted from 0
Insert(s, index, x) == SubSeq(s, 1, index) \o <<x>> \o SubSeq(s, index + 1, Len(s))
Pop(s, index) == SubSeq(s, 1, index) \o SubSeq(s, index + 2, Len(s))

\* a new inner operator: its broadcast slots are connected to the wrapper's
NewLane(id) ==
    [id |-> id, broadcast |-> broadcastingSlotNames, DatasetGroup |-> [r \in Roles |-> ""]]

\* the id the next inner operator gets
nextLane == Len(innerOperators) + Cardinality(tornDown) + 1

\* what lane operator `lane` sees on its input `name`
laneInput(lane, name) == IF name \in lane.broadcast THEN broadcastSlots[name] ELSE ""

NoLaneCall == [op |-> "", laneIndex |-> 0, finalLength |-> 0, signalled |-> FALSE]

\* lines 698-707
LaneInit ==
    /\ innerOperators = <<>>
    /\ broadcastSlots = [name \in WrapperInputs |-> ""]
    /\ outputSlots = [name \in WrapperOutputs |-> <<>>]
    /\ tornDown = {}
    /\ lanePc = "idle"
    /\ laneCall = NoLaneCall
    /\ laneCalls = 0

\* the client connects a level-0 input of the wrapper, once
Broadcast_setValue == \E name \in WrapperInputs :
    /\ lanePc = "idle"
    /\ broadcastSlots[name] = ""
    /\ broadcastSlots' = [broadcastSlots EXCEPT ![name] = "value of " \o name]
    /\ UNCHANGED <<innerOperators, outputSlots, tornDown, lanePc, laneCall, laneCalls>>

\* the client fills DatasetGroup[lane][role]
DatasetGroup_setValue == \E lane \in DOMAIN innerOperators, role \in Roles :
    /\ lanePc = "idle"
    /\ innerOperators[lane].DatasetGroup[role] = ""
    /\ innerOperators' = [innerOperators EXCEPT ![lane].DatasetGroup[role] = "dataset"]
    /\ UNCHANGED <<broadcastSlots, outputSlots, tornDown, lanePc, laneCall, laneCalls>>

\* lines 709-716; the base class has inserted the inner operator and is
\* about to insert its outputs
addLane == \E laneIndex \in 0..(MaxLanes - 1) :
    /\ lanePc = "idle"
    /\ laneCalls < MaxLaneCalls
    /\ laneCalls' = laneCalls + 1
    /\ laneCall' = [op |-> "addLane", laneIndex |-> laneIndex, finalLength |-> 0,
                    signalled |-> FALSE]
    /\ LET numLanes == Len(innerOperators)
       IN  IF addLane_creates(numLanes, laneIndex) /\ laneIndex <= numLanes
             THEN /\ innerOperators' = Insert(innerOperators, laneIndex, NewLane(nextLane))
                  /\ lanePc' = "insertSlot"
             ELSE UNCHANGED <<innerOperators, lanePc>>
    /\ UNCHANGED <<broadcastSlots, outputSlots, tornDown>>

\* a listener of the wrapper's insertSlot signal calls addLane with the same
\* index while the first call is still running: lines 709-716 once more
insertSlot_addLane ==
    /\ lanePc = "insertSlot"
    /\ ~laneCall.signalled
    /\ laneCall' = [laneCall EXCEPT !.signalled = TRUE]
    /\ LET numLanes == Len(innerOperators)
           laneIndex == laneCall.laneIndex
           id == nextLane
       IN  IF addLane_creates(numLanes, laneIndex) /\ laneIndex <= numLanes
             THEN /\ innerOperators' = Insert(innerOperators, laneIndex, NewLane(id))
                  /\ outputSlots' = [name \in WrapperOutputs |->
                                       Insert(outputSlots[name], laneIndex, id)]
             ELSE UNCHANGED <<innerOperators, outputSlots>>
    /\ UNCHANGED <<broadcastSlots, tornDown, lanePc, laneCalls>>

\* the base class inserts the outputs of the new lane; addLane returns
addLane_outputs ==
    /\ lanePc = "insertSlot"
    /\ LET laneIndex == laneCall.laneIndex
           id == CHOOSE id \in {innerOperators[k].id : k \in DOMAIN innerOperators} :
                     \A name \in WrapperOutputs : id \notin Range(outputSlots[name])
       IN  outputSlots' = [name \in WrapperOutputs |->
                             Insert(outputSlots[name], laneIndex, id)]
    /\ lanePc' = "idle"
    /\ UNCHANGED <<innerOperators, broadcastSlots, tornDown, laneCall, laneCalls>>

\* lines 718-722; the caller names a lane of the finalLength + 1 it knows of
removeLane == \E finalLength \in 0..(MaxLanes - 1) : \E laneIndex \in 0..finalLength :
    /\ lanePc = "idle"
    /\ laneCalls < MaxLaneCalls
    /\ laneCalls' = laneCalls + 1
    /\ laneCall' = [op |-> "removeLane", laneIndex |-> laneIndex,
                    finalLength |-> finalLength, signalled |-> FALSE]
    /\ LET numLanes == Len(innerOperators)
       IN  IF removeLane_removes(numLanes, finalLength) /\ laneIndex < numLanes
             THEN /\ innerOperators' = Pop(innerOperators, laneIndex)
                  /\ outputSlots' = [name \in WrapperOutputs |->
                                       Pop(outputSlots[name], laneIndex)]
                  /\ tornDown' = tornDown \cup {innerOperators[laneIndex + 1].id}
             ELSE UNCHANGED <<innerOperators, outputSlots, tornDown>>
    /\ UNCHANGED <<broadcastSlots, lanePc>>

LaneNext ==
    \/ Broadcast_setValue /\ UNCHANGED <<vars, groupVars, exportVars, guiVars>>
    \/ DatasetGroup_setValue /\ UNCHANGED <<vars, groupVars, exportVars, guiVars>>
    \/ addLane /\ UNCHANGED <<vars, groupVars, exportVars, guiVars>>
    \/ insertSlot_addLane /\ UNCHANGED <<vars, groupVars, exportVars, guiVars>>
    \/ addLane_outputs /\ UNCHANGED <<vars, groupVars, exportVars, guiVars>>
    \/ removeLane /\ UNCHANGED <<vars, groupVars, exportVars, guiVars>>

(***************************************************************************)
(* OpExportDvidVolume, src/lazyflow/operators/ioOperators/                 *)
(* opExportDvidVolume.py.  An array is its axis keys, its shape and its    *)
(* elements by index; a url is its sequence of tokens, the separators      *)
(* "://" and "/" being tokens of their own.                                *)
(***************************************************************************)
\* the indices of an array of the given shape, counted from 0
RECURSIVE Indices(_)
Indices(shape) ==
    IF shape = <<>> THEN {<<>>}
    ELSE {<<i>> \o rest : i \in 0..(Head(shape) - 1), rest \in Indices(Tail(shape))}

\* numpy.indices-like test data: every element differs from every other
IndexArray(axes, shape) ==
    [axes |-> axes, shape |-> shape, at |-> [idx \in Indices(shape) |-> idx]]

NoArray == [axes |-> <<>>, shape |-> <<>>, at |-> <<>>]

Arrays ==
    { IndexArray(<<"y", "x", "c">>, <<2, 3, 1>>),
      IndexArray(<<"z", "y", "x", "c">>, <<2, 1, 2, 2>>),
      IndexArray(<<"c", "x", "y">>, <<2, 3, 2>>),
      IndexArray(<<"y", "c", "x">>, <<2, 1, 3>>) }

Urls ==
    { <<"http", "://", "localhost:8000", "/", "api", "/", "node", "/", "abcde", "/", "indices_data">>,
      <<"http", "://", "localhost:8000", "/", "api", "/", "node", "/", "fffff", "/", "indices_data">>,
      <<"http", "://", "localhost:8000", "/", "api", "/", "nodes", "/", "abcde", "/", "indices_data">>,
      <<"http", "://", "localhost:8000", "/", "node", "/", "abcde", "/", "indices_data">>,
      <<"localhost:8000", "/", "api", "/", "node", "/", "abcde", "/", "indices_data">> }

\* the nodes the server has (test lines 42-48)
ServerNodes == {"abcde"}

\* str.split(sep): the pieces between the separators
RECURSIVE split(_, _)
split(s, sep) ==
    IF \A i \in DOMAIN s : s[i] # sep THEN <<s>>
    ELSE LET i == CHOOSE i \in DOMAIN s : s[i] = sep /\ \A j \in 1..(i - 1) : s[j] # sep
         IN  <<SubSeq(s, 1, i - 1)>> \o split(SubSeq(s, i + 1, Len(s)), sep)

\* a piece without separators, as a string
str(piece) == IF piece = <<>> THEN "" ELSE piece[1]

\* AxisTags.channelIndex: the position of 'c' counted from 0, len if absent
channelIndex(axes) ==
    IF "c" \in Range(axes) THEN IndexOf(axes, "c") - 1 ELSE Len(axes)

\* VigraArray.transpose(): the axes in reverse order
transpose(data) ==
    [axes |-> Reverse(data.axes), shape |-> Reverse(data.shape),
     at |-> [idx \in Indices(Reverse(data.shape)) |-> data.at[Reverse(idx)]]]

\* lines 44-45 without the transposition
transposed_never(transpose_axes, data) == data

\* lines 44-45
transposed(transpose_axes, data) == IF transpose_axes THEN transpose(data) ELSE data

\* lazyflow.roi.roiFromShape
roiFromShape(shape) == <<[i \in 1..Len(shape) |-> 0], shape>>

\* the mock server keeps a volume in the file with the axes in the reverse
\* of the order it is sent in (test lines 56, 74-80)
stored(start, stop, data) ==
    [axes |-> Reverse(data.axes), shape |-> Reverse(data.shape),
     at |-> [idx \in {i \in Indices(Reverse(data.shape)) :
                        \A k \in DOMAIN i : /\ start[k] <= Reverse(i)[k]
                                            /\ Reverse(i)[k] < stop[k]}
               |-> data.at[Reverse(idx)]]]

NoExportLocals == [hostname |-> "", uuid |-> "", dataname |-> "", data |-> NoArray]

NoVolumes == [key \in {} |-> NoArray]

\* lines 17-20; the server of the test has its node and no volume yet
ExportInit ==
    /\ exTranspose \in BOOLEAN
    /\ exInput = NoArray
    /\ exUrl = <<>>
    /\ exSetup = ""
    /\ exPc = "idle"
    /\ exLocals = NoExportLocals
    /\ progress = <<>>
    /\ sent = <<>>
    /\ volumes = NoVolumes
    /\ exRaised = NoError
    /\ exports = 0

\* lines 23-27, run once both inputs are ready
export_setupOutputs(input, url) ==
    IF input = NoArray \/ url = <<>> THEN ""
    ELSE IF exTranspose
      THEN IF channelIndex(input.axes) = Len(input.axes) - 1 THEN "ok" ELSE "AssertionError"
    ELSE IF channelIndex(input.axes) = 0 THEN "ok" ELSE "AssertionError"

Input_setValue == \E array \in Arrays :
    /\ exPc = "idle"
    /\ exInput = NoArray
    /\ exInput' = array
    /\ exSetup' = export_setupOutputs(array, exUrl)
    /\ UNCHANGED <<exTranspose, exUrl, exPc, exLocals, progress, sent, volumes, exRaised,
                   exports>>

NodeDataUrl_setValue == \E url \in Urls :
    /\ exPc = "idle"
    /\ exUrl = <<>>
    /\ exUrl' = url
    /\ exSetup' = export_setupOutputs(exInput, url)
    /\ UNCHANGED <<exTranspose, exInput, exPc, exLocals, progress, sent, volumes, exRaised,
                   exports>>

\* an exception caught inside run_export, which goes on with the next step
ExRaise_caught(error, next) ==
    /\ exRaised' = error
    /\ exPc' = next

\* an exception leaves run_export, which has no try block: no step follows
ExRaise(error, next) ==
    /\ exRaised' = error
    /\ exPc' = "idle"

\* line 33
run_export ==
    /\ exPc = "idle"
    /\ exports < MaxExports
    /\ exports' = exports + 1
    /\ progress' = <<0>>
    /\ exLocals' = NoExportLocals
    /\ sent' = <<>>
    /\ exRaised' = NoError
    /\ exPc' = "ex_url"
    /\ UNCHANGED <<exTranspose, exInput, exUrl, exSetup, volumes>>

\* lines 35-39
ex_url ==
    /\ exPc = "ex_url"
    /\ LET pieces == split(exUrl, "://")
           url_path == pieces[2]
           parts == split(url_path, "/")
       IN  IF exUrl = <<>>
             THEN ExRaise(Exception("SlotNotReadyError", "NodeDataUrl"), "ex_request")
                  /\ UNCHANGED exLocals
           ELSE IF Len(pieces) < 2
             THEN ExRaise(Exception("IndexError", "list index out of range"), "ex_request")
                  /\ UNCHANGED exLocals
           ELSE IF Len(parts) # 5
             THEN ExRaise(Exception("ValueError", "values to unpack"), "ex_request")
                  /\ UNCHANGED exLocals
           ELSE IF str(parts[2]) # "api" \/ str(parts[3]) # "node"
             THEN ExRaise(Exception("AssertionError", "api / node"), "ex_request")
                  /\ exLocals' = [exLocals EXCEPT !.hostname = str(parts[1]),
                                                   !.uuid = str(parts[4]),
                                                   !.dataname = str(parts[5])]
           ELSE /\ exLocals' = [exLocals EXCEPT !.hostname = str(parts[1]),
                                                !.uuid = str(parts[4]),
                                                !.dataname = str(parts[5])]
                /\ exPc' = "ex_request"
                /\ UNCHANGED exRaised
    /\ UNCHANGED <<exTranspose, exInput, exUrl, exSetup, progress, sent, volumes, exports>>

\* line 42: the request for the whole input resolves or fails
ex_request ==
    /\ exPc = "ex_request"
    /\ \/ /\ exInput # NoArray
          /\ exLocals' = [exLocals EXCEPT !.data = exInput]
          /\ exPc' = "ex_transpose"
          /\ UNCHANGED exRaised
       \/ /\ ExRaise(Exception(IF exInput = NoArray THEN "SlotNotReadyError" ELSE "Exception",
                                "Input"), "ex_transpose")
          /\ UNCHANGED exLocals
    /\ UNCHANGED <<exTranspose, exInput, exUrl, exSetup, progress, sent, volumes, exports>>

\* lines 44-45
ex_transpose ==
    /\ exPc = "ex_transpose"
    /\ exLocals' = [exLocals EXCEPT !.data = transposed(exTranspose, @)]
    /\ exPc' = "ex_metainfo"
    /\ UNCHANGED <<exTranspose, exInput, exUrl, exSetup, progress, sent, volumes, exRaised,
                   exports>>

\* lines 49-51
ex_metainfo ==
    /\ exPc = "ex_metainfo"
    /\ progress' = Append(progress, 5)
    /\ exPc' = "ex_create_volume"
    /\ UNCHANGED <<exTranspose, exInput, exUrl, exSetup, exLocals, sent, volumes, exRaised,
                   exports>>

\* VolumeClient.create_volume of line 52, as the server answers it
create_volume(uuid, dataname, metainfo) ==
    [key \in DOMAIN volumes \cup {<<uuid, dataname>>} |->
        IF key = <<uuid, dataname>> THEN [metainfo |-> metainfo, file |-> NoArray]
        ELSE volumes[key]]

\* line 52: the server creates the volume, or refuses (no such node; a
\* volume of that name may or may not be refused)
ex_create_volume ==
    /\ exPc = "ex_create_volume"
    /\ LET key == <<exLocals.uuid, exLocals.dataname>>
           metainfo == [shape |-> exLocals.data.shape, axes |-> exLocals.data.axes]
       IN  \/ /\ exLocals.uuid \in ServerNodes
              /\ volumes' = create_volume(exLocals.uuid, exLocals.dataname, metainfo)
              /\ sent' = Append(sent, [request |-> "create_volume", key |-> key,
                                       start |-> <<>>, stop |-> <<>>])
              /\ exPc' = "ex_modify_subvolume"
              /\ UNCHANGED exRaised
           \/ /\ exLocals.uuid \notin ServerNodes \/ key \in DOMAIN volumes
              /\ ExRaise(Exception("Exception", "create_volume"), "ex_modify_subvolume")
              /\ UNCHANGED <<volumes, sent>>
    /\ UNCHANGED <<exTranspose, exInput, exUrl, exSetup, exLocals, progress, exports>>

\* lines 54-61: the whole array is sent at once, or the connection fails
ex_modify_subvolume ==
    /\ exPc = "ex_modify_subvolume"
    /\ LET key == <<exLocals.uuid, exLocals.dataname>>
           start == roiFromShape(exLocals.data.shape)[1]
           stop == roiFromShape(exLocals.data.shape)[2]
       IN  \/ /\ key \in DOMAIN volumes
              /\ volumes' = [volumes EXCEPT ![key].file = stored(start, stop, exLocals.data)]
              /\ sent' = Append(sent, [request |-> "modify_subvolume", key |-> key,
                                       start |-> start, stop |-> stop])
              /\ exPc' = "ex_done"
              /\ UNCHANGED exRaised
           \/ /\ ExRaise(Exception("Exception", "modify_subvolume"), "ex_done")
              /\ UNCHANGED <<volumes, sent>>
    /\ UNCHANGED <<exTranspose, exInput, exUrl, exSetup, exLocals, progress, exports>>

\* line 63; run_export returns
ex_done ==
    /\ exPc = "ex_done"
    /\ progress' = Append(progress, 100)
    /\ exPc' = "idle"
    /\ UNCHANGED <<exTranspose, exInput, exUrl, exSetup, exLocals, sent, volumes, exRaised,
                   exports>>

ExportNext ==
    \/ Input_setValue /\ UNCHANGED <<vars, laneVars, groupVars, guiVars>>
    \/ NodeDataUrl_setValue /\ UNCHANGED <<vars, laneVars, groupVars, guiVars>>
    \/ run_export /\ UNCHANGED <<vars, laneVars, groupVars, guiVars>>
    \/ ex_url /\ UNCHANGED <<vars, laneVars, groupVars, guiVars>>
    \/ ex_request /\ UNCHANGED <<vars, laneVars, groupVars, guiVars>>
    \/ ex_transpose /\ UNCHANGED <<vars, laneVars, groupVars, guiVars>>
    \/ ex_metainfo /\ UNCHANGED <<vars, laneVars, groupVars, guiVars>>
    \/ ex_create_volume /\ UNCHANGED <<vars, laneVars, groupVars, guiVars>>
    \/ ex_modify_subvolume /\ UNCHANGED <<vars, laneVars, groupVars, guiVars>>
    \/ ex_done /\ UNCHANGED <<vars, laneVars, groupVars, guiVars>>

(***************************************************************************)
(* SplitBodySupervoxelExportGui.exportRelabeling, src/ilastik/applets/     *)
(* splitBodySupervoxelExport/splitBodySupervoxelExportGui.py lines 51-73.  *)
(* The request returned by exportFinalSupervoxels is running; it is        *)
(* resolved by a worker thread, once, as finished or as failed, and a      *)
(* callback registered on a request already resolved that way is called    *)
(* at once.                                                                *)
(***************************************************************************)
\* what the file dialog returns: "" when it was cancelled
ExportPaths == {"", "relabeling.h5", "relabeling.hdf5"}

NoRequest == [state |-> "none", path |-> "", finished |-> "", failed |-> ""]

\* lines 72-73 with no handler for a failed request
handlerFor_finished_only(outcome) == IF outcome = "finished" THEN "handleFinish" ELSE ""

\* lines 72-73: the handler registered for each outcome
handlerFor(outcome) == "handleFinish"

\* lines 70-71: what calling a handler does to the button
called(handler, enabled) == IF handler = "handleFinish" THEN TRUE ELSE enabled

GuiInit ==
    /\ guiPc = "idle"
    /\ exportButton = TRUE
    /\ exportPath = ""
    /\ req = NoRequest
    /\ clicks = 0
    /\ started = 0

\* lines 51-59: the button is clicked and the dialog answered
exportRelabeling == \E path \in ExportPaths :
    /\ guiPc = "idle"
    /\ exportButton
    /\ clicks < MaxClicks
    /\ clicks' = clicks + 1
    /\ exportPath' = path
    /\ guiPc' = IF path = "" THEN "idle" ELSE "exportFinalSupervoxels"
    /\ UNCHANGED <<exportButton, req, started>>

\* lines 61-68: the request is created and started
gui_exportFinalSupervoxels ==
    /\ guiPc = "exportFinalSupervoxels"
    /\ req' = [state |-> "pending", path |-> exportPath, finished |-> "", failed |-> ""]
    /\ started' = started + 1
    /\ guiPc' = "setEnabled"
    /\ UNCHANGED <<exportButton, exportPath, clicks>>

\* line 69
gui_setEnabled ==
    /\ guiPc = "setEnabled"
    /\ exportButton' = FALSE
    /\ guiPc' = "notify_finished"
    /\ UNCHANGED <<exportPath, req, clicks, started>>

\* line 72
gui_notify_finished ==
    /\ guiPc = "notify_finished"
    /\ IF req.state = "finished"
         THEN /\ exportButton' = called(handlerFor("finished"), exportButton)
              /\ UNCHANGED req
         ELSE /\ req' = [req EXCEPT !.finished = handlerFor("finished")]
              /\ UNCHANGED exportButton
    /\ guiPc' = "notify_failed"
    /\ UNCHANGED <<exportPath, clicks, started>>

\* line 73; exportRelabeling returns
gui_notify_failed ==
    /\ guiPc = "notify_failed"
    /\ IF req.state = "failed"
         THEN /\ exportButton' = called(handlerFor("failed"), exportButton)
              /\ UNCHANGED req
         ELSE /\ req' = [req EXCEPT !.failed = handlerFor("failed")]
              /\ UNCHANGED exportButton
    /\ guiPc' = "idle"
    /\ UNCHANGED <<exportPath, clicks, started>>

\* a worker thread resolves the request and calls the callbacks registered
\* for the outcome
request_resolves == \E outcome \in {"finished", "failed"} :
    /\ req.state = "pending"
    /\ req' = [req EXCEPT !.state = outcome]
    /\ exportButton' = called(req[outcome], exportButton)
    /\ UNCHANGED <<guiPc, exportPath, clicks, started>>

\* what goes on without the user: the click handler and the worker thread
GuiRun ==
    \/ gui_exportFinalSupervoxels /\ UNCHANGED <<vars, laneVars, groupVars, exportVars>>
    \/ gui_setEnabled /\ UNCHANGED <<vars, laneVars, groupVars, exportVars>>
    \/ gui_notify_finished /\ UNCHANGED <<vars, laneVars, groupVars, exportVars>>
    \/ gui_notify_failed /\ UNCHANGED <<vars, laneVars, groupVars, exportVars>>
    \/ request_resolves /\ UNCHANGED <<vars, laneVars, groupVars, exportVars>>

GuiNext ==
    \/ exportRelabeling /\ UNCHANGED <<vars, laneVars, groupVars, exportVars>>
    \/ GuiRun

(***************************************************************************)
(* OpDataSelectionGroup, lines 589-688.  One OperatorWrapper over          *)
(* OpDataSelection holds an inner operator per subslot of DatasetGroup.    *)
(* An inner operator is kept as far as the group relies on it: its         *)
(* RoleName, and whether its Image is ready, which it is once it was set   *)
(* up with a dataset it could read.  Slot operations run the callbacks and *)
(* setupOutputs calls they cause inside the operation: ready callbacks     *)
(* when the slot turns ready, then the operators downstream of the slot,   *)
(* then the operator owning it; what one of them raises reaches the client *)
(* and ends the operation.                                                 *)
(***************************************************************************)
\* the values DatasetRoles is given
RoleLists ==
    {<<>>, <<"Raw Data">>, <<"Raw Data", "Prediction Maps">>,
     <<"Raw Data", "Prediction Maps", "Labels">>}

\* the datasets of a subslot: one the inner operator can be set up with, and
\* one whose setupOutputs raises (lines 576-578)
GroupDatasets == {"good", "bad"}

\* lines 600-615
GroupOutputs ==
    {"ImageGroup", "Image", "Image1", "Image2", "AllowLabels",
     "_NonTransposedImageGroup", "ImageName"}

NoPartner == [wrapper |-> 0, slot |-> "", index |-> -1]

\* slot[index] of a wrapper, the whole leveled slot for index -1
Subslot(wrapper, slot, index) == [wrapper |-> wrapper, slot |-> slot, index |-> index]

\* Slot.disconnect(): no partner, fresh meta
disconnected == [partner |-> NoPartner, NOTREADY |-> FALSE]

\* Slot.connect(partner): the meta is the partner's
connected(partner) == [partner |-> partner, NOTREADY |-> FALSE]

\* slot.meta.NOTREADY = True
NOTREADY(slot) == [slot EXCEPT !.NOTREADY = TRUE]

\* line 657, always taken
connects_Image1_always(len) == len >= 1

\* line 657
connects_Image1(len) == len >= 2

\* line 663
connects_Image2(len) == len >= 3

\* lines 640-643: OperatorWrapper(OpDataSelection, parent=self, ...), built
\* while self._roles is roles
NewWrapper(roles) ==
    [roles |-> roles, cleanUps |-> 0, Dataset |-> FALSE, WorkingDirectory |-> FALSE,
     innerOperators |-> <<>>]

\* line 367: an inner OpDataSelection as constructed
NewInner == [RoleName |-> "", Image |-> FALSE]

\* Slot.resize(n): subslots are kept by index, new ones are appended
Resized(s, n, new) ==
    IF n <= Len(s) THEN SubSeq(s, 1, n) ELSE s \o [i \in 1..(n - Len(s)) |-> new]

\* the first subslot whose inner setupOutputs raises, 0 if none does
FirstBad(datasets) ==
    IF \E i \in DOMAIN datasets : datasets[i] = "bad"
      THEN CHOOSE i \in DOMAIN datasets :
               /\ datasets[i] = "bad"
               /\ \A j \in DOMAIN datasets : datasets[j] = "bad" => i <= j
      ELSE 0

\* the inner operators after each one with a ready Dataset ran setupOutputs,
\* in lane order up to the first that raises
InnerSetup(inner, datasets) ==
    [i \in DOMAIN inner |->
        IF i \in DOMAIN datasets /\ datasets[i] # ""
           /\ (FirstBad(datasets) = 0 \/ i <= FirstBad(datasets))
          THEN [inner[i] EXCEPT !.Image = (datasets[i] = "good")]
          ELSE inner[i]]

\* Operator.configured() of the group: DatasetGroup and the project slots are optional
GroupConfigured(roles, workingDirectory) == roles.ready /\ workingDirectory

\* self._opDatasets is a wrapper that was not cleaned up
Live(wrapper) == wrapper # 0 /\ wrappers[wrapper].cleanUps = 0

\* lines 617-621 and the slot declarations
GroupInit ==
    /\ DatasetRoles = [ready |-> FALSE, value |-> <<>>]
    /\ Group_WorkingDirectory = FALSE
    /\ DatasetGroup = <<>>
    /\ _roles = <<>>
    /\ _opDatasets = 0
    /\ wrappers = <<>>
    /\ groupOutputs = [name \in GroupOutputs |-> disconnected]
    /\ groupPc = "idle"
    /\ role_index = 0
    /\ groupRaised = NoError
    /\ groupCalls = 0

\* the operation of the client ends with error
GroupRaise(error) ==
    /\ groupRaised' = error
    /\ groupPc' = "idle"

\* lines 623-625: DatasetGroup is resized, and with it the wrapper whose
\* Dataset slot is connected to it (line 646)
handleNewRoles(roles) ==
    /\ DatasetGroup' = Resized(DatasetGroup, Len(roles), "")
    /\ wrappers' = [w \in DOMAIN wrappers |->
                      IF wrappers[w].Dataset
                        THEN [wrappers[w] EXCEPT
                                !.innerOperators = Resized(@, Len(roles), NewInner)]
                        ELSE wrappers[w]]

\* DatasetRoles.setValue(roles) with a new value; the ready callback of line
\* 625 fires only when the slot was not ready before
DatasetRoles_setValue == \E roles \in RoleLists :
    /\ groupPc = "idle"
    /\ groupCalls < MaxGroupCalls
    /\ ~(DatasetRoles.ready /\ DatasetRoles.value = roles)
    /\ DatasetRoles' = [ready |-> TRUE, value |-> roles]
    /\ IF DatasetRoles.ready THEN UNCHANGED <<DatasetGroup, wrappers>>
                             ELSE handleNewRoles(roles)
    /\ groupPc' = IF Group_WorkingDirectory THEN "setupOutputs" ELSE "idle"
    /\ groupRaised' = NoError
    /\ groupCalls' = groupCalls + 1
    /\ UNCHANGED <<Group_WorkingDirectory, _roles, _opDatasets, groupOutputs, role_index>>

DatasetRoles_disconnect ==
    /\ groupPc = "idle"
    /\ groupCalls < MaxGroupCalls
    /\ DatasetRoles.ready
    /\ DatasetRoles' = [ready |-> FALSE, value |-> <<>>]
    /\ groupRaised' = NoError
    /\ groupCalls' = groupCalls + 1
    /\ UNCHANGED <<Group_WorkingDirectory, DatasetGroup, _roles, _opDatasets, wrappers,
                   groupOutputs, groupPc, role_index>>

\* WorkingDirectory.setValue(dir): the inner operators of the wrapper
\* connected at line 649 are set up first
Group_WorkingDirectory_setValue ==
    /\ groupPc = "idle"
    /\ groupCalls < MaxGroupCalls
    /\ ~Group_WorkingDirectory
    /\ Group_WorkingDirectory' = TRUE
    /\ groupCalls' = groupCalls + 1
    /\ IF Live(_opDatasets) /\ wrappers[_opDatasets].WorkingDirectory
         THEN /\ wrappers' = [wrappers EXCEPT ![_opDatasets].innerOperators =
                                 InnerSetup(@, DatasetGroup)]
              /\ IF FirstBad(DatasetGroup) # 0
                   THEN GroupRaise(Exception("DatasetReadError", "bad"))
                   ELSE /\ groupRaised' = NoError
                        /\ groupPc' = IF DatasetRoles.ready THEN "setupOutputs" ELSE "idle"
         ELSE /\ groupRaised' = NoError
              /\ groupPc' = IF DatasetRoles.ready THEN "setupOutputs" ELSE "idle"
              /\ UNCHANGED wrappers
    /\ UNCHANGED <<DatasetRoles, DatasetGroup, _roles, _opDatasets, groupOutputs,
                   role_index>>

\* WorkingDirectory.disconnect(): the inner operators lose a required input
Group_WorkingDirectory_disconnect ==
    /\ groupPc = "idle"
    /\ groupCalls < MaxGroupCalls
    /\ Group_WorkingDirectory
    /\ Group_WorkingDirectory' = FALSE
    /\ groupCalls' = groupCalls + 1
    /\ groupRaised' = NoError
    /\ wrappers' = [w \in DOMAIN wrappers |->
                      IF wrappers[w].WorkingDirectory
                        THEN [wrappers[w] EXCEPT !.innerOperators =
                                 [i \in DOMAIN @ |-> [@[i] EXCEPT !.Image = FALSE]]]
                        ELSE wrappers[w]]
    /\ UNCHANGED <<DatasetRoles, DatasetGroup, _roles, _opDatasets, groupOutputs, groupPc,
                   role_index>>

\* DatasetGroup[i].setValue(dataset): the inner operator connected to the
\* subslot is set up first, then the group
DatasetGroup_i_setValue == \E i \in DOMAIN DatasetGroup, dataset \in GroupDatasets :
    /\ groupPc = "idle"
    /\ groupCalls < MaxGroupCalls
    /\ DatasetGroup[i] # dataset
    /\ DatasetGroup' = [DatasetGroup EXCEPT ![i] = dataset]
    /\ groupCalls' = groupCalls + 1
    /\ IF /\ Live(_opDatasets) /\ wrappers[_opDatasets].Dataset
          /\ wrappers[_opDatasets].WorkingDirectory /\ Group_WorkingDirectory
         THEN /\ wrappers' = [wrappers EXCEPT ![_opDatasets].innerOperators[i].Image =
                                 (dataset = "good")]
              /\ IF dataset = "bad"
                   THEN GroupRaise(Exception("DatasetReadError", "bad"))
                   ELSE /\ groupRaised' = NoError
                        /\ groupPc' = IF DatasetRoles.ready THEN "setupOutputs" ELSE "idle"
         ELSE /\ groupRaised' = NoError
              /\ groupPc' = IF GroupConfigured(DatasetRoles, Group_WorkingDirectory)
                              THEN "setupOutputs" ELSE "idle"
              /\ UNCHANGED wrappers
    /\ UNCHANGED <<DatasetRoles, Group_WorkingDirectory, _roles, _opDatasets, groupOutputs,
                   role_index>>

(***************************************************************************)
(* OpDataSelectionGroup.setupOutputs, lines 627-681                        *)
(***************************************************************************)
\* lines 629-630
Group_setupOutputs ==
    /\ groupPc = "setupOutputs"
    /\ IF DatasetRoles.value # _roles
         THEN /\ _roles' = DatasetRoles.value
              /\ groupPc' = "disconnect"
         ELSE /\ UNCHANGED _roles
              /\ groupPc' = "enumerate"
    /\ UNCHANGED <<DatasetRoles, Group_WorkingDirectory, DatasetGroup, _opDatasets,
                   wrappers, groupOutputs, role_index, groupRaised, groupCalls>>

\* lines 632-636
gso_disconnect ==
    /\ groupPc = "disconnect"
    /\ groupOutputs' =
          [name \in GroupOutputs |->
              IF name \in {"ImageGroup", "Image", "Image1", "Image2",
                           "_NonTransposedImageGroup"}
                THEN disconnected ELSE groupOutputs[name]]
    /\ groupPc' = "cleanUp"
    /\ UNCHANGED <<DatasetRoles, Group_WorkingDirectory, DatasetGroup, _roles, _opDatasets,
                   wrappers, role_index, groupRaised, groupCalls>>

\* lines 637-638: the wrapper and its inner operators are torn down, and the
\* slots still connected to its outputs lose their partner
gso_cleanUp ==
    /\ groupPc = "cleanUp"
    /\ IF _opDatasets # 0
         THEN /\ wrappers' = [wrappers EXCEPT ![_opDatasets] =
                                 [@ EXCEPT !.cleanUps = @ + 1, !.Dataset = FALSE,
                                           !.WorkingDirectory = FALSE,
                                           !.innerOperators = <<>>]]
              /\ groupOutputs' =
                    [name \in GroupOutputs |->
                        IF groupOutputs[name].partner.wrapper = _opDatasets
                          THEN disconnected ELSE groupOutputs[name]]
         ELSE UNCHANGED <<wrappers, groupOutputs>>
    /\ groupPc' = "OperatorWrapper"
    /\ UNCHANGED <<DatasetRoles, Group_WorkingDirectory, DatasetGroup, _roles, _opDatasets,
                   role_index, groupRaised, groupCalls>>

\* lines 640-645
gso_OperatorWrapper ==
    /\ groupPc = "OperatorWrapper"
    /\ wrappers' = Append(wrappers, NewWrapper(_roles))
    /\ _opDatasets' = Len(wrappers) + 1
    /\ groupOutputs' =
          [groupOutputs EXCEPT
              !["ImageGroup"] = connected(Subslot(Len(wrappers) + 1, "Image", -1)),
              !["_NonTransposedImageGroup"] =
                  connected(Subslot(Len(wrappers) + 1, "_NonTransposedImage", -1))]
    /\ groupPc' = "connect_Dataset"
    /\ UNCHANGED <<DatasetRoles, Group_WorkingDirectory, DatasetGroup, _roles, role_index,
                   groupRaised, groupCalls>>

\* line 646: the wrapper gets one inner operator per subslot of DatasetGroup
gso_connect_Dataset ==
    /\ groupPc = "connect_Dataset"
    /\ wrappers' = [wrappers EXCEPT ![_opDatasets] =
                       [@ EXCEPT !.Dataset = TRUE,
                                 !.innerOperators =
                                     [i \in DOMAIN DatasetGroup |-> NewInner]]]
    /\ groupPc' = "connect_WorkingDirectory"
    /\ UNCHANGED <<DatasetRoles, Group_WorkingDirectory, DatasetGroup, _roles, _opDatasets,
                   groupOutputs, role_index, groupRaised, groupCalls>>

\* lines 647-649: with WorkingDirectory every inner operator whose Dataset
\* is ready has its required inputs and is set up
gso_connect_WorkingDirectory ==
    /\ groupPc = "connect_WorkingDirectory"
    /\ wrappers' = [wrappers EXCEPT ![_opDatasets] =
                       [@ EXCEPT !.WorkingDirectory = TRUE,
                                 !.innerOperators = InnerSetup(@, DatasetGroup)]]
    /\ IF FirstBad(DatasetGroup) # 0
         THEN GroupRaise(Exception("DatasetReadError", "bad"))
         ELSE /\ groupPc' = "enumerate"
              /\ UNCHANGED groupRaised
    /\ UNCHANGED <<DatasetRoles, Group_WorkingDirectory, DatasetGroup, _roles, _opDatasets,
                   groupOutputs, role_index, groupCalls>>

\* line 651: enumerate(self._opDatasets)
gso_enumerate ==
    /\ groupPc = "enumerate"
    /\ IF _opDatasets = 0
         THEN /\ GroupRaise(Exception("TypeError", "'NoneType' object is not iterable"))
              /\ UNCHANGED role_index
         ELSE /\ role_index' = 0
              /\ groupPc' = "RoleName"
              /\ UNCHANGED groupRaised
    /\ UNCHANGED <<DatasetRoles, Group_WorkingDirectory, DatasetGroup, _roles, _opDatasets,
                   wrappers, groupOutputs, groupCalls>>

\* line 652, one iteration: a new RoleName sets the inner operator up again
\* if its Dataset is ready
gso_RoleName ==
    /\ groupPc = "RoleName"
    /\ role_index < Len(wrappers[_opDatasets].innerOperators)
    /\ IF role_index >= Len(_roles)
         THEN /\ GroupRaise(Exception("IndexError", "list index out of range"))
              /\ UNCHANGED <<wrappers, role_index>>
         ELSE /\ role_index' = role_index + 1
              /\ IF /\ wrappers[_opDatasets].innerOperators[role_index + 1].RoleName
                           # _roles[role_index + 1]
                    /\ DatasetGroup[role_index + 1] # ""
                   THEN /\ wrappers' =
                              [wrappers EXCEPT
                                  ![_opDatasets].innerOperators[role_index + 1] =
                                      [RoleName |-> _roles[role_index + 1],
                                       Image |-> DatasetGroup[role_index + 1] = "good"]]
                        /\ IF DatasetGroup[role_index + 1] = "bad"
                             THEN GroupRaise(Exception("DatasetReadError", "bad"))
                             ELSE UNCHANGED <<groupPc, groupRaised>>
                   ELSE /\ wrappers' =
                              [wrappers EXCEPT
                                  ![_opDatasets].innerOperators[role_index + 1].RoleName =
                                      _roles[role_index + 1]]
                        /\ UNCHANGED <<groupPc, groupRaised>>
    /\ UNCHANGED <<DatasetRoles, Group_WorkingDirectory, DatasetGroup, _roles, _opDatasets,
                   groupOutputs, groupCalls>>

\* lines 654-681, with len(self._opDatasets.Image) the number of inner operators
gso_Image ==
    /\ groupPc = "RoleName"
    /\ role_index >= Len(wrappers[_opDatasets].innerOperators)
    /\ LET len == Len(wrappers[_opDatasets].innerOperators)
           unconnected == NOTREADY(disconnected)
       IN  groupOutputs' =
             IF len > 0
               THEN [groupOutputs EXCEPT
                       !["Image"] = connected(Subslot(_opDatasets, "Image", 0)),
                       !["Image1"] = IF connects_Image1(len)
                                       THEN connected(Subslot(_opDatasets, "Image", 1))
                                       ELSE unconnected,
                       !["Image2"] = IF connects_Image2(len)
                                       THEN connected(Subslot(_opDatasets, "Image", 2))
                                       ELSE unconnected,
                       !["ImageName"] = connected(Subslot(_opDatasets, "ImageName", 0)),
                       !["AllowLabels"] =
                           connected(Subslot(_opDatasets, "AllowLabels", 0))]
               ELSE [groupOutputs EXCEPT
                       !["Image"] = unconnected,
                       !["Image1"] = unconnected,
                       !["Image2"] = unconnected,
                       !["ImageName"] = unconnected,
                       !["AllowLabels"] = unconnected]
    /\ groupPc' = "returned"
    /\ UNCHANGED <<DatasetRoles, Group_WorkingDirectory, DatasetGroup, _roles, _opDatasets,
                   wrappers, role_index, groupRaised, groupCalls>>

\* setupOutputs returns to the slot operation that ran it
gso_return ==
    /\ groupPc = "returned"
    /\ groupPc' = "idle"
    /\ UNCHANGED <<DatasetRoles, Group_WorkingDirectory, DatasetGroup, _roles, _opDatasets,
                   wrappers, groupOutputs, role_index, groupRaised, groupCalls>>

GroupNext ==
    \/ DatasetRoles_setValue /\ UNCHANGED <<vars, laneVars, exportVars, guiVars>>
    \/ DatasetRoles_disconnect /\ UNCHANGED <<vars, laneVars, exportVars, guiVars>>
    \/ Group_WorkingDirectory_setValue /\ UNCHANGED <<vars, laneVars, exportVars, guiVars>>
    \/ Group_WorkingDirectory_disconnect /\ UNCHANGED <<vars, laneVars, exportVars, guiVars>>
    \/ DatasetGroup_i_setValue /\ UNCHANGED <<vars, laneVars, exportVars, guiVars>>
    \/ Group_setupOutputs /\ UNCHANGED <<vars, laneVars, exportVars, guiVars>>
    \/ gso_disconnect /\ UNCHANGED <<vars, laneVars, exportVars, guiVars>>
    \/ gso_cleanUp /\ UNCHANGED <<vars, laneVars, exportVars, guiVars>>
    \/ gso_OperatorWrapper /\ UNCHANGED <<vars, laneVars, exportVars, guiVars>>
    \/ gso_connect_Dataset /\ UNCHANGED <<vars, laneVars, exportVars, guiVars>>
    \/ gso_connect_WorkingDirectory /\ UNCHANGED <<vars, laneVars, exportVars, guiVars>>
    \/ gso_enumerate /\ UNCHANGED <<vars, laneVars, exportVars, guiVars>>
    \/ gso_RoleName /\ UNCHANGED <<vars, laneVars, exportVars, guiVars>>
    \/ gso_Image /\ UNCHANGED <<vars, laneVars, exportVars, guiVars>>
    \/ gso_return /\ UNCHANGED <<vars, laneVars, exportVars, guiVars>>

(***************************************************************************)
(* Specifications: one operator at a time, the others as constructed       *)
(***************************************************************************)
\* an OpDataSelection nobody has touched
Untouched == Init /\ forceAxisOrder = <<>>

\* one OpDataSelection
InitSelection == Init /\ LaneInit /\ GroupInit /\ ExportInit /\ ~exTranspose /\ GuiInit

\* one OpMultiLaneDataSelectionGroup
InitLanes == Untouched /\ LaneInit /\ GroupInit /\ ExportInit /\ ~exTranspose /\ GuiInit

\* one OpDataSelectionGroup
InitGroup == Untouched /\ LaneInit /\ GroupInit /\ ExportInit /\ ~exTranspose /\ GuiInit

\* one OpExportDvidVolume
InitExport == Untouched /\ LaneInit /\ GroupInit /\ ExportInit /\ GuiInit

\* one SplitBodySupervoxelExportGui
InitGui == Untouched /\ LaneInit /\ GroupInit /\ ExportInit /\ ~exTranspose /\ GuiInit

Spec == InitSelection /\ [][Next]_allvars

SpecReentrant == InitSelection /\ [][NextReentrant]_allvars

SpecLanes == InitLanes /\ [][LaneNext]_allvars

SpecGroup == InitGroup /\ [][GroupNext]_allvars

SpecExport == InitExport /\ [][ExportNext]_allvars

\* the click handler runs to its end and the worker threads resolve the
\* request: neither waits for the user
SpecGui == InitGui /\ [][GuiNext]_allvars /\ WF_allvars(GuiRun)

(***************************************************************************)
(* Properties                                                              *)
(***************************************************************************)
Idle == pc = "idle"

\* how often the axis key a occurs in the order s
Count(s, a) == Cardinality({i \in DOMAIN s : s[i] = a})

NoOutputReady ==
    /\ Image = 0
    /\ _NonTransposedImage = 0
    /\ ~AllowLabels.ready
    /\ ~ImageName.ready

ImageMeta == children[Image].meta

NonTransposedMeta == children[_NonTransposedImage].meta

\* C1: once setupOutputs has raised the constraint error for missing x or y
\* axes, none of Image, _NonTransposedImage, AllowLabels, ImageName is ready.
C1_NoOutputReadyAfterMissingXY ==
    (Idle /\ raised = DatasetConstraintError("DataSelection", "x and y")) => NoOutputReady

\* C2: once setupOutputs has raised, _opReaders is empty and every child
\* operator created during the call has been cleaned up.
C2_ChildrenCleanedWhenRaised ==
    (Idle /\ raised # NoError) =>
        /\ _opReaders = <<>>
        /\ \A c \in DOMAIN children : c > prior.nChildren => children[c].cleanUps > 0

OldConfigurationIntact ==
    /\ prior.configuration.opReaders # <<>>
    /\ Configuration = prior.configuration
    /\ \A c \in Range(_opReaders) : children[c].cleanUps = 0

FullyUnready ==
    /\ NoOutputReady
    /\ \A c \in DOMAIN children : children[c].cleanUps > 0

\* C3: once setupOutputs has raised, the operator is either in the complete
\* configuration it had when the call started or fully unready (no live
\* child, no output ready).
C3_PriorStateWhenRaised ==
    (Idle /\ raised # NoError) => (OldConfigurationIntact \/ FullyUnready)

\* C4: with a non-empty forceAxisOrder the order chosen at line 551 is a
\* declared candidate containing every provider axis of extent > 1, no
\* qualifying candidate is shorter, and none of the same length is declared
\* before it.
C4_ShortestFirstDeclared ==
    (pc = "so_channel" /\ forceAxisOrder # <<>>) =>
        LET meta == children[providerSlot].meta
            Qualifies(o) == \A k \in DOMAIN meta.keys :
                                meta.shape[k] > 1 => \E j \in DOMAIN o : o[j] = meta.keys[k]
        IN  \E i \in DOMAIN forceAxisOrder :
                /\ output_order = forceAxisOrder[i]
                /\ Qualifies(forceAxisOrder[i])
                /\ \A j \in DOMAIN forceAxisOrder : Qualifies(forceAxisOrder[j]) =>
                       /\ Len(forceAxisOrder[j]) >= Len(output_order)
                       /\ (Len(forceAxisOrder[j]) = Len(output_order) => i <= j)

\* an order has been chosen among several qualifying candidates of the same
\* minimal length
C4_Witness ==
    /\ pc = "so_channel"
    /\ \E i, j \in DOMAIN forceAxisOrder :
           /\ i < j
           /\ forceAxisOrder[i] # forceAxisOrder[j]
           /\ Len(forceAxisOrder[i]) = Len(forceAxisOrder[j])
           /\ output_order = forceAxisOrder[i]
           /\ minimal_axes(children[providerSlot].meta) \subseteq Range(forceAxisOrder[j])

ScenarioA ==
    /\ Dataset = DatasetInfo(<<"t","z","y","x","c">>, <<1,1,50,50,1>>, <<>>)
    /\ forceAxisOrder = << <<"t","c","z","y","x">> >>
    /\ WorkingDirectory

C5_ScenarioA ==
    (Idle /\ ScenarioA) =>
        /\ Image # 0
        /\ ImageMeta = [keys |-> <<"t","c","z","y","x">>, shape |-> <<1,1,1,50,50>>]

\* the original general statement: every provider axis is found in the
\* Image output with its extent
C5_EveryProviderAxisKept ==
    (Idle /\ Image # 0) =>
        \A k \in DOMAIN NonTransposedMeta.keys : \E j \in DOMAIN ImageMeta.keys :
            /\ ImageMeta.keys[j] = NonTransposedMeta.keys[k]
            /\ ImageMeta.shape[j] = NonTransposedMeta.shape[k]

C5_Original == C5_ScenarioA /\ C5_EveryProviderAxisKept

\* C5: scenario A yields a ready Image with order tczyx and shape
\* (1,1,1,50,50); in general every provider axis of extent > 1 is in the
\* order of the Image output, and every provider axis that is in that order
\* is there once, with its extent (the others, of extent 1, are dropped).
C5_ProviderAxesOfTheOrderKept ==
    /\ C5_ScenarioA
    /\ (Idle /\ Image # 0) =>
           \A k \in DOMAIN NonTransposedMeta.keys :
               (NonTransposedMeta.shape[k] > 1 \/ NonTransposedMeta.keys[k] \in Range(ImageMeta.keys))
               => /\ Count(ImageMeta.keys, NonTransposedMeta.keys[k]) = 1
                  /\ \E j \in DOMAIN ImageMeta.keys :
                        /\ ImageMeta.keys[j] = NonTransposedMeta.keys[k]
                        /\ ImageMeta.shape[j] = NonTransposedMeta.shape[k]

C5_Witness ==
    /\ Idle
    /\ ScenarioA
    /\ Image # 0
    /\ NonTransposedMeta = [keys |-> <<"t","z","y","x","c">>, shape |-> <<1,1,50,50,1>>]
    /\ ImageMeta.shape = <<1,1,1,50,50>>

\* a dataset whose provider exposes exactly the axes y and x, that its reader
\* can open
ScenarioB ==
    /\ Dataset.keys = <<"y","x">>
    /\ Dataset.axistags = <<>>
    /\ Dataset.readable
    /\ Dataset.location = "PreloadedArray" => Dataset.preloaded_array
    /\ Dataset.location = "ProjectInternal" => ProjectFile
    /\ WorkingDirectory
    /\ forceAxisOrder = << <<"t","c","z","y","x">> >>

\* C6: a provider with only the axes y and x, under the candidate orders
\* ["tczyx"], is accepted: nothing is raised and Image has the order tczyx
\* with extent 1 for t, c and z and the provider's extents for y and x.
C6_SingletonAxesInserted ==
    (Idle /\ ScenarioB) =>
        /\ raised = NoError
        /\ Image # 0
        /\ ImageMeta.keys = <<"t","c","z","y","x">>
        /\ ImageMeta.shape = <<1, 1, 1, Dataset.shape[1], Dataset.shape[2]>>

C6_Witness ==
    /\ Idle
    /\ ScenarioB
    /\ Dataset.shape = <<30,20>>
    /\ Image # 0
    /\ ImageMeta.shape = <<1,1,1,30,20>>

\* C7: the axis order handed to the reordering stage, and so the order of
\* the Image output, contains the channel axis c exactly once; it is the
\* provider's own order, with c appended if it lacks one, when
\* forceAxisOrder is empty.
C7_ChannelAxisOnce ==
    /\ pc = "so_reorder" =>
           /\ Count(output_order, "c") = 1
           /\ forceAxisOrder = <<>> =>
                  LET keys == children[providerSlot].meta.keys
                  IN  output_order = IF \E k \in DOMAIN keys : keys[k] = "c"
                                       THEN keys ELSE keys \o <<"c">>
    /\ Image # 0 => Count(ImageMeta.keys, "c") = 1

C7_Witness ==
    /\ pc = "so_reorder"
    /\ forceAxisOrder = <<>>
    /\ children[providerSlot].meta.keys = <<"z","y","x">>
    /\ output_order = <<"z","y","x","c">>

\* no order of forceAxisOrder contains every axis of extent > 1 that the
\* provider of the reordering stage has
NoCandidateQualifies ==
    LET meta == children[providerSlot].meta
    IN  \A i \in DOMAIN forceAxisOrder : \E k \in DOMAIN meta.keys :
            /\ meta.shape[k] > 1
            /\ \A j \in DOMAIN forceAxisOrder[i] : forceAxisOrder[i][j] # meta.keys[k]

\* C8: when no candidate order contains every provider axis of extent > 1,
\* line 549 raises a DatasetConstraintError naming "DataSelection"; an
\* exception in flight is handed to the caller as it was raised; and when a
\* DatasetConstraintError has reached the caller Image is not connected.
C8_NoCandidateRaisesToCaller ==
    /\ [][(pc = "so_order" /\ forceAxisOrder # <<>> /\ NoCandidateQualifies)
            => /\ pc' = "so_except"
               /\ exc'.type = "DatasetConstraintError"
               /\ exc'.appletName = "DataSelection"]_vars
    /\ [][(exc # NoError /\ pc # "so_raise") => exc' = exc]_vars
    /\ [][pc = "so_raise" => (raised' = exc /\ pc' = "idle")]_vars
    /\ [](raised.type = "DatasetConstraintError" => Image = 0)

\* the error for incompatible axes has reached the caller of a call that
\* started with Image connected
C8_Witness ==
    /\ Idle
    /\ raised = DatasetConstraintError("DataSelection", "not compatible")
    /\ prior.configuration.Image # 0
    /\ Image = 0

\* C9: when the dataset of a configured operator has been replaced by one of
\* different dimensionality (here: one in the file system that its reader
\* can open), the call has raised InvalidDimensionalityError and the outputs
\* are as before the call or all not ready.
C9_DimensionalityMismatchRaised ==
    (/\ Idle
     /\ prior.configuration.opReaders # <<>>
     /\ configured(Dataset, WorkingDirectory)
     /\ Dataset.location = "FileSystem"
     /\ Dataset.readable
     /\ Len(Dataset.shape) # prior.ndim)
    => /\ raised.type = "InvalidDimensionalityError"
       /\ (Configuration = prior.configuration \/ NoOutputReady)

ReaderKinds == {"OpStreamingH5N5Reader", "OpArrayPiper", "OpInputDataReader", "OpZeroDefault"}

\* C10: whenever a child operator is cleaned up, Image and
\* _NonTransposedImage are already disconnected, the child is one of
\* _opReaders, every child of _opReaders created after it has been cleaned
\* up and none created before it has; _opReaders holds the children in the
\* order reader, metadata injector, reordering stage.
C10_DisconnectThenReverseCleanup ==
    /\ [][\A c \in DOMAIN children : children'[c].cleanUps > children[c].cleanUps =>
            /\ Image = 0
            /\ _NonTransposedImage = 0
            /\ \E i \in DOMAIN _opReaders : _opReaders[i] = c
            /\ \A i \in DOMAIN _opReaders :
                   /\ _opReaders[i] > c => children[_opReaders[i]].cleanUps > 0
                   /\ _opReaders[i] < c => children[_opReaders[i]].cleanUps = 0]_vars
    /\ [](\A i \in DOMAIN _opReaders :
            /\ i = 1 => children[_opReaders[i]].kind \in ReaderKinds
            /\ i = 2 => children[_opReaders[i]].kind = "OpMetadataInjector"
            /\ i = 3 => children[_opReaders[i]].kind = "OpReorderAxes"
            /\ \A j \in DOMAIN _opReaders : i < j => _opReaders[i] < _opReaders[j])

\* inside internalCleanup of a full chain: the reordering stage and the
\* metadata injector are cleaned up, the reader is not yet
C10_Witness ==
    /\ pc = "ic_cleanUp"
    /\ Len(_opReaders) = 3
    /\ children[_opReaders[3]].cleanUps = 1
    /\ children[_opReaders[2]].cleanUps = 1
    /\ children[_opReaders[1]].cleanUps = 0
    /\ Image = 0
    /\ _NonTransposedImage = 0

(***************************************************************************)
(* C11: internalCleanup can be called again, one call after the other or   *)
(* from an unready notification inside a running internalCleanup or        *)
(* setupOutputs, and no child operator is ever cleaned up a second time.   *)
(***************************************************************************)
C11_NoChildCleanedTwice ==
    \A c \in DOMAIN children : children[c].cleanUps <= 1

(***************************************************************************)
(* C12: when a required input (Dataset or WorkingDirectory) of a           *)
(* configured operator has become unready, no child operator remains and   *)
(* no output slot is ready.                                                *)
(***************************************************************************)
RequiredInputBecameUnready ==
    Idle /\ prior.configured /\ ~configured(Dataset, WorkingDirectory)

C12_TornDownWhenRequiredInputUnready ==
    RequiredInputBecameUnready =>
        /\ NoOutputReady
        /\ _opReaders = <<>>
        /\ \A c \in DOMAIN children : children[c].cleanUps > 0

(***************************************************************************)
(* C19: every ready array output has as many axis tags as shape entries;   *)
(* the axis tags injected by the reinterpretation of lines 485-505 have    *)
(* one distinct key per provider axis, and DatasetInfo.axistags of a       *)
(* length other than the provider's, the provider's less one, or the       *)
(* number of its non-singleton axes never get as far as being injected.    *)
(***************************************************************************)
Distinct(s) == \A i, j \in DOMAIN s : s[i] = s[j] => i = j

ProviderMeta == children[providerSlot].meta

C19_AxistagsMatchShape ==
    /\ Image # 0 => Len(ImageMeta.keys) = Len(ImageMeta.shape)
    /\ _NonTransposedImage # 0 =>
           Len(NonTransposedMeta.keys) = Len(NonTransposedMeta.shape)
    /\ pc = "so_injector" /\ Dataset.axistags # <<>> =>
           /\ Len(metadata) = Len(ProviderMeta.shape)
           /\ Distinct(metadata)
           /\ Len(Dataset.axistags) \in
                  {Len(ProviderMeta.shape), Len(ProviderMeta.shape) - 1,
                   Cardinality({i \in DOMAIN ProviderMeta.shape : ProviderMeta.shape[i] # 1})}

\* axis tags "xy" were given for a provider of axes yxc: the channel axis
\* was appended, injected, and the outputs are connected
C19_Witness ==
    /\ Idle
    /\ Image # 0
    /\ Dataset.axistags = <<"x", "y">>
    /\ Dataset.keys = <<"y", "x", "c">>
    /\ NonTransposedMeta.keys = <<"x", "y", "c">>

(***************************************************************************)
(* C20: between calls the operator is Ready (Image connected to a          *)
(* reordering child, _opReaders holding the reader, the metadata injector  *)
(* and the reordering stage in that order) only if every required input is *)
(* ready and the last setupOutputs succeeded; after a setupOutputs that    *)
(* raised to its caller it has no children and Image is not connected.     *)
(***************************************************************************)
Ready ==
    /\ Image # 0
    /\ ImageMeta # NoMeta
    /\ children[Image].kind = "OpReorderAxes"
    /\ Len(_opReaders) = 3
    /\ children[_opReaders[1]].kind \in ReaderKinds
    /\ children[_opReaders[2]].kind = "OpMetadataInjector"
    /\ _opReaders[3] = Image

Unconfigured ==
    /\ Image = 0
    /\ _opReaders = <<>>
    /\ \A c \in DOMAIN children : children[c].cleanUps > 0

C20_StateMachine ==
    Idle =>
        /\ Ready => configured(Dataset, WorkingDirectory) /\ raised = NoError
        /\ raised # NoError => Unconfigured

OutputsMatchLanes ==
    lanePc = "idle" =>
        \A name \in WrapperOutputs : Len(outputSlots[name]) = Len(innerOperators)

LaneCreatedOnlyAtTheEnd ==
    Len(innerOperators') > Len(innerOperators) =>
        /\ Len(innerOperators') = Len(innerOperators) + 1
        /\ laneCall'.op = "addLane"
        /\ laneCall'.laneIndex = Len(innerOperators)

LaneRemovedOnlyAboveFinalLength ==
    Len(innerOperators') < Len(innerOperators) =>
        /\ Len(innerOperators') = Len(innerOperators) - 1
        /\ laneCall'.op = "removeLane"
        /\ Len(innerOperators) > laneCall'.finalLength

C14_OutputsAsLongAsLanes ==
    /\ []OutputsMatchLanes
    /\ [][LaneCreatedOnlyAtTheEnd /\ LaneRemovedOnlyAboveFinalLength]_laneVars

\* addLane(1) was called again from the insertSlot signal and created nothing
C14_Witness ==
    /\ lanePc = "idle"
    /\ laneCall.op = "addLane"
    /\ laneCall.signalled
    /\ laneCall.laneIndex = 1
    /\ Len(innerOperators) = 2

(***************************************************************************)
(* C15: a resize keeps the lanes it does not affect.  As claimed: an added *)
(* lane leaves every existing lane at its index, the same instance with    *)
(* the same entries, and a shrink tears down the trailing lanes only.      *)
(***************************************************************************)
LaneIds(ops) == {ops[k].id : k \in DOMAIN ops}

GrowKeepsLanes ==
    Len(innerOperators') > Len(innerOperators) =>
        \A k \in DOMAIN innerOperators : innerOperators'[k] = innerOperators[k]

C15_Original ==
    [][/\ GrowKeepsLanes
       /\ Len(innerOperators') < Len(innerOperators) =>
             /\ \A k \in DOMAIN innerOperators' : innerOperators'[k] = innerOperators[k]
             /\ tornDown' \ tornDown =
                    {innerOperators[k].id : k \in (Len(innerOperators') + 1)..Len(innerOperators)}
      ]_laneVars

\* C15 as amended: removeLane(i, finalLength) tears down exactly lane i;
\* the lanes below i stay at their index, the lanes above i move down by
\* one, and all of them are the same instances with the same entries.
C15_RemovedLaneOnly ==
    [][/\ GrowKeepsLanes
       /\ Len(innerOperators') < Len(innerOperators) =>
             LET i == laneCall'.laneIndex + 1
             IN  /\ \A k \in DOMAIN innerOperators' :
                        innerOperators'[k] = innerOperators[IF k < i THEN k ELSE k + 1]
                 /\ tornDown' \ tornDown = {innerOperators[i].id}
                 /\ LaneIds(innerOperators') = LaneIds(innerOperators) \ {innerOperators[i].id}
      ]_laneVars

\* lane 0 of three was removed; the lane now at index 0 has an entry the
\* client set before
C15_Witness ==
    /\ lanePc = "idle"
    /\ laneCall.op = "removeLane"
    /\ laneCall.laneIndex = 0
    /\ Len(innerOperators) = 2
    /\ innerOperators[1].id = 2
    /\ innerOperators[1].DatasetGroup["Raw Data"] # ""
    /\ tornDown = {1}

(***************************************************************************)
(* C16: run_export calls the progress signal with 0, then 5, then 100 and  *)
(* nothing else: 0 before the input is requested, 5 before the volume is   *)
(* created, 100 only once the volume was created and the whole array       *)
(* written; once a step has raised, no further value is emitted.           *)
(***************************************************************************)
WholeArrayWritten ==
    /\ Len(sent) = 2
    /\ sent[1].request = "create_volume"
    /\ sent[2].request = "modify_subvolume"
    /\ sent[2].key = sent[1].key
    /\ sent[2].start = [i \in DOMAIN exLocals.data.shape |-> 0]
    /\ sent[2].stop = exLocals.data.shape
    /\ DOMAIN volumes[sent[2].key].file.at = Indices(volumes[sent[2].key].file.shape)

ProgressInOrder ==
    /\ progress \in {<<>>, <<0>>, <<0, 5>>, <<0, 5, 100>>}
    /\ exLocals.data # NoArray => Len(progress) >= 1
    /\ sent # <<>> => Len(progress) >= 2
    /\ Len(progress) = 3 => WholeArrayWritten /\ exRaised = NoError
    /\ exRaised # NoError => exPc = "idle"

NoProgressAfterRaise ==
    exRaised # NoError /\ exRaised' # NoError => progress' = progress

C16_ProgressSequence ==
    []ProgressInOrder /\ [][NoProgressAfterRaise]_exportVars

\* a first run went through; the second raised when creating the volume,
\* after 0 and 5, and has returned
C16_Witness ==
    /\ exPc = "idle"
    /\ exports = 2
    /\ exRaised.message = "create_volume"
    /\ progress = <<0, 5>>
    /\ \E key \in DOMAIN volumes : volumes[key].file # NoArray

(***************************************************************************)
(* C18: after run_export has returned with transpose_axes=True for an      *)
(* input whose last axis is the channel axis, the volume the server keeps  *)
(* under the uuid and data name of NodeDataUrl equals the input, element   *)
(* for element in the input's axis order; it was created, then written     *)
(* once over its full region.                                              *)
(***************************************************************************)
Exported == exPc = "idle" /\ exports > 0 /\ exRaised = NoError

ButtonFollowsRequest ==
    guiPc = "idle" => (exportButton <=> req.state # "pending")

NoPathNoRequest ==
    clicks' # clicks /\ exportPath' = "" =>
        /\ exportButton' = exportButton
        /\ req' = req
        /\ started' = started
        /\ guiPc' = "idle"

Alive(c) == children[c].cleanUps = 0

C21_ChildrenCleanedExactlyOnce ==
    /\ \A c \in DOMAIN children : children[c].cleanUps <= 1
    /\ Idle => \A c \in DOMAIN children : Alive(c) => c \in Range(_opReaders)

(***************************************************************************)
(* C22: when OpDataSelectionGroup.setupOutputs returns, Image is connected *)
(* to ImageGroup[0] iff DatasetGroup has at least one dataset, Image1 to   *)
(* ImageGroup[1] iff it has at least two, Image2 to ImageGroup[2] iff it   *)
(* has at least three; an output that is not connected has no partner and  *)
(* is marked not-ready, and with no dataset so are ImageName and           *)
(* AllowLabels.                                                            *)
(***************************************************************************)
\* the slot is connected to what ImageGroup[index] is connected to
MirrorsImageGroup(name, index) ==
    /\ groupOutputs["ImageGroup"].partner.wrapper # 0
    /\ groupOutputs[name].partner =
           [groupOutputs["ImageGroup"].partner EXCEPT !.index = index]

Unconnected(name) ==
    /\ groupOutputs[name].partner = NoPartner
    /\ groupOutputs[name].NOTREADY

MirrorsOrUnconnected(name, index) ==
    IF Len(DatasetGroup) > index THEN MirrorsImageGroup(name, index) ELSE Unconnected(name)

C22_ConvenienceOutputsMirrorImageGroup ==
    groupPc = "returned" =>
        /\ MirrorsOrUnconnected("Image", 0)
        /\ MirrorsOrUnconnected("Image1", 1)
        /\ MirrorsOrUnconnected("Image2", 2)
        /\ Len(DatasetGroup) = 0 => Unconnected("ImageName") /\ Unconnected("AllowLabels")

\* setupOutputs returns with two datasets, after an earlier wrapper was
\* replaced: Image and Image1 mirror the new wrapper, Image2 has no partner
C22_Witness ==
    /\ groupPc = "returned"
    /\ Len(DatasetGroup) = 2
    /\ _opDatasets = 2
    /\ groupOutputs["Image1"].partner = Subslot(2, "Image", 1)
    /\ Unconnected("Image2")

(***************************************************************************)
(* C23: whenever setupOutputs of the group is entered, DatasetGroup has no *)
(* more subslots than DatasetRoles has roles; the loop of lines 651-652    *)
(* never indexes past the role list; and when setupOutputs returns, inner  *)
(* operator i has the RoleName roles[i].                                   *)
(***************************************************************************)
C23_RoleNamesWithinRoles ==
    /\ groupPc = "setupOutputs" => Len(DatasetGroup) <= Len(DatasetRoles.value)
    /\ groupRaised.type # "IndexError"
    /\ groupPc = "returned" =>
           \A i \in DOMAIN wrappers[_opDatasets].innerOperators :
               /\ i <= Len(DatasetRoles.value)
               /\ wrappers[_opDatasets].innerOperators[i].RoleName = DatasetRoles.value[i]

(***************************************************************************)
(* C24: whenever setupOutputs of the group reaches the loop that assigns   *)
(* the role names, self._opDatasets is a wrapper that was created, was not *)
(* cleaned up, and was built for the current value of DatasetRoles; a      *)
(* wrapper is created only when the role list differs from the one the     *)
(* wrapper before it was built for, and only after that wrapper was        *)
(* cleaned up, which happens once and only after ImageGroup, Image,        *)
(* Image1, Image2 and _NonTransposedImageGroup were disconnected.          *)
(***************************************************************************)
WrapperInUseIsCurrent ==
    groupPc = "enumerate" =>
        /\ Live(_opDatasets)
        /\ wrappers[_opDatasets].roles = DatasetRoles.value

WrapperReplacedInOrder ==
    /\ Len(wrappers') > Len(wrappers) /\ _opDatasets # 0 =>
           /\ wrappers[_opDatasets].roles # _roles
           /\ wrappers[_opDatasets].cleanUps = 1
    /\ \A w \in DOMAIN wrappers :
           wrappers'[w].cleanUps # wrappers[w].cleanUps =>
               /\ w = _opDatasets
               /\ wrappers[w].cleanUps = 0
               /\ \A name \in {"ImageGroup", "Image", "Image1", "Image2",
                               "_NonTransposedImageGroup"} :
                      groupOutputs[name].partner = NoPartner

C24_LiveWrapperForCurrentRoles ==
    /\ []WrapperInUseIsCurrent
    /\ [][WrapperReplacedInOrder]_groupVars

=============================================================================
